---------------------------- MODULE Spec2Model ----------------------------
(***************************************************************************)
(* A model of the trait-fuzzer orchestration engine (trait-fuzzer/main.py): *)
(* the seed selector, the differential oracle and its classification, the   *)
(* per-seed mutation loop of worker_main, and the retention policy of       *)
(* enforce_results_limits.                                                  *)
(***************************************************************************)
EXTENDS Integers, Sequences, FiniteSets, TLC

VARIABLES
    selector,   \* the SeedSelector object (its fields, as a record)
    disk,       \* the seed files that exist on disk
    ret,        \* what the most recent SeedSelector.select call returned
    nsel,       \* how many select calls were made (bounds the run)
    cfg,        \* the run's configuration (config.json and the command line)
    baseline,   \* the per-pass baseline cache: seed_baseline_results,
                \* seed_is_fate, seed_is_miscompilation
    judged,     \* the judgement of the most recent mutant
    w,          \* the locals of worker_main and the position in its loops
    obs,        \* what an observer of the worker has seen since the seed
                \* was selected: a CRASH/HANG verdict, the cases written
    results_dir, \* the case directories under results/<category>/
    enforced,   \* the most recent enforce_results_limits call: what it
                \* found, what failed and what each of its steps deleted
    clock       \* the file system's time, and how many entries under
                \* results/ and LLM/rewrites/ were ever created

vars == <<selector, disk, ret, nsel, cfg, baseline, judged, w, obs,
          results_dir, enforced, clock>>

\* The variables each specification leaves alone
selectorIdle == <<cfg, baseline, judged, results_dir, enforced, clock>>
oracleIdle == <<selector, disk, ret, nsel, w, results_dir, enforced, clock>>
workerIdle == <<ret, nsel, results_dir, enforced, clock>>
Idle == [none |-> TRUE]

(***************************************************************************)
(* Seed selector (class SeedSelector)                                       *)
(***************************************************************************)

\* Seed paths. "a" is a base seed, "b" a base seed whose file name encodes a
\* family (<stem>__fam__A), "p" a file under a promoted directory <prefix><N>.
Seeds == {"a", "b", "p"}
NoSeed == "None"
NoFam == "None"

\* The promoted directories seeds/<prefix>1, seeds/<prefix>2, ... and the
\* files seed_<variant_id>.rs a worker writes into them; PromotedFiles[n][k]
\* is the file of this worker's k-th promotion attempt when it is written
\* into <prefix>n.
PromotedDirs == <<"new1", "new2", "new3">>
PromotedFiles ==
    <<<<"new1/v1", "new1/v2", "new1/v3", "new1/v4">>,
      <<"new2/v1", "new2/v2", "new2/v3", "new2/v4">>,
      <<"new3/v1", "new3/v2", "new3/v3", "new3/v4">>>>
PromotedPaths ==
    UNION {{PromotedFiles[n][k] : k \in 1..Len(PromotedFiles[n])} :
              n \in 1..Len(PromotedFiles)}

\* "e" is a base seed whose file name encodes the empty family
\* (<stem>__fam__), "c" a second base seed of family A (<stem>__fam__A)
Paths == Seeds \cup {"e", "c"} \cup PromotedPaths

\* _is_promoted_seed: the seed lives under seeds/<prefix><digits>/
IsPromotedSeed(s) == s = "p" \/ s \in PromotedPaths

\* _infer_family_from_seed: the part after __fam__ in the stem, else the
\* seed's own resolved path.
InferFamily(s) ==
    IF s \in {"b", "c"} THEN "A" ELSE IF s = "e" THEN "" ELSE s

Families == {InferFamily(s) : s \in Seeds}

\* The keys the selector's family bookkeeping can get
AllFamilies == {InferFamily(s) : s \in Paths}

\* _family_key: the stored family, else the inferred one.  (The code also
\* memoises the inferred value in _seed_family; the memo never differs from
\* what inference returns, so it is left out of the state.)
FamilyKey(sel, s) ==
    IF sel.seed_family[s] # NoFam THEN sel.seed_family[s] ELSE InferFamily(s)

\* collections.deque(maxlen=n).append(x)
DequeAppend(q, x, maxlen) ==
    IF maxlen <= 0 THEN << >>
    ELSE IF Len(q) >= maxlen THEN Append(Tail(q), x)
    ELSE Append(q, x)

Range(q) == {q[k] : k \in 1..Len(q)}

\* [x for x in q if x != v]
RECURSIVE Without(_, _)
Without(q, v) ==
    IF q = << >> THEN << >>
    ELSE IF Head(q) = v THEN Without(Tail(q), v)
    ELSE <<Head(q)>> \o Without(Tail(q), v)

\* -1 stands for "no budget" (seed_max_picks_per_seed None or negative).
NoLimit == -1

EligibleSeeds_NoBanFilter(sel) ==
    IF sel.seeds = {} THEN {}
    ELSE IF sel.max_picks_per_seed >= 0
         THEN {s \in sel.seeds : sel.pick_counts[s] < sel.max_picks_per_seed}
         ELSE sel.seeds

EligibleSeeds_NoBudget(sel) ==
    IF sel.seeds = {} THEN {}
    ELSE {s \in sel.seeds : FamilyKey(sel, s) \notin sel.banned_families}

\* _eligible_seeds
EligibleSeeds(sel) ==
    IF sel.seeds = {} THEN {}
    ELSE LET eligible == {s \in sel.seeds :
                             FamilyKey(sel, s) \notin sel.banned_families}
         IN  IF eligible = {} THEN {}
             ELSE IF sel.max_picks_per_seed >= 0
                  THEN {s \in eligible :
                           sel.pick_counts[s] < sel.max_picks_per_seed}
                  ELSE eligible

\* _choose_pool_candidates; want_promoted is the draw
\* random.random() < _promoted_pool_prob.
ChoosePoolCandidates(sel, eligible, want_promoted) ==
    IF eligible = {} THEN eligible
    ELSE LET promoted == eligible \cap sel.promoted_seeds
             base == eligible \ sel.promoted_seeds
         IN  IF want_promoted /\ promoted # {} THEN promoted
             ELSE IF base # {} THEN base
             ELSE promoted

\* Windows that are never relaxed
CandidatesWithinWindow_NeverRelaxed(sel, eligible) ==
    {s \in eligible :
        /\ sel.repeat_window > 0 => s \notin Range(sel.recent)
        /\ sel.family_repeat_window > 0
              => FamilyKey(sel, s) \notin Range(sel.family_recent)}

\* _candidates_within_window
CandidatesWithinWindow(sel, eligible) ==
    LET seed_candidates ==
            IF sel.repeat_window <= 0 \/ Cardinality(eligible) <= 1
            THEN eligible
            ELSE LET fresh == eligible \ Range(sel.recent)
                 IN  IF fresh = {} THEN eligible ELSE fresh
    IN  IF sel.family_repeat_window <= 0 \/ Cardinality(seed_candidates) <= 1
        THEN seed_candidates
        ELSE LET fam_candidates ==
                     {s \in seed_candidates :
                         FamilyKey(sel, s) \notin Range(sel.family_recent)}
             IN  IF fam_candidates # {} THEN fam_candidates
                 ELSE seed_candidates

\* _record_pick
RecordPick(sel, s) ==
    LET family == FamilyKey(sel, s)
    IN  [sel EXCEPT
            !.pick_counts[s] = @ + 1,
            !.recent = IF sel.repeat_window > 0
                       THEN DequeAppend(@, s, sel.repeat_window) ELSE @,
            !.family_pick_counts[family] = @ + 1,
            !.family_recent = IF sel.family_repeat_window > 0
                              THEN DequeAppend(@, family, sel.family_repeat_window)
                              ELSE @]

\* remove_seed
RemoveSeed(sel, s) ==
    IF s \notin sel.seeds THEN sel
    ELSE LET family == FamilyKey(sel, s)
         IN  [sel EXCEPT
                 !.seeds = @ \ {s},
                 !.promoted_seeds = @ \ {s},
                 !.pick_counts[s] = 0,
                 !.seed_family[s] = NoFam,
                 !.recent = IF sel.repeat_window > 0 THEN Without(@, s) ELSE @,
                 !.family_pick_counts[family] = 0,
                 !.family_recent = IF sel.family_repeat_window > 0
                                   THEN Without(@, family) ELSE @]

\* `if family_id:` is false for None and for the empty string
Falsy(family_id) == family_id \in {NoFam, ""}

\* add_seed; exists is seed.exists() and seed.is_file(), internal is
\* _is_internal_only_seed(seed).  Without a family id the code stores the
\* inferred family, which is what FamilyKey returns for NoFam.
AddSeed(sel, s, family_id, exists, internal) ==
    IF ~exists \/ s \in sel.seeds \/ internal THEN sel
    ELSE [sel EXCEPT
             !.seeds = @ \cup {s},
             !.promoted_seeds = IF IsPromotedSeed(s) THEN @ \cup {s} ELSE @,
             !.seed_family[s] = IF Falsy(family_id) THEN NoFam
                                ELSE family_id]

\* ban_family
BanFamily(sel, family) ==
    IF family = NoFam THEN sel
    ELSE [sel EXCEPT !.banned_families = @ \cup {family}]

\* random.choice(candidates) / random.choices(candidates, weights): every
\* weight is max(_min_weight, decayed) * max(_family_min_weight, fam_factor)
\* with both floors forced positive in __init__, so either draw can return
\* any candidate.
PickFn(strategy, candidates) == candidates

\* A retry loop that returns what it picked without looking at the disk
PickWithRetry_NoExistsCheck(sel, strategy, candidates, n, files) ==
    {<<picked, sel, <<picked>> >> : picked \in PickFn(strategy, candidates)}

\* select._pick_with_retry: the outcomes <<picked, selector, picks>> of at
\* most n picks, picks being the seeds pick_fn returned in order; a picked
\* seed whose file is missing is removed and the pick retried over the same
\* candidate list.
RECURSIVE PickWithRetry(_, _, _, _, _)
PickWithRetry(sel, strategy, candidates, n, files) ==
    IF n = 0 \/ PickFn(strategy, candidates) = {} THEN {<<NoSeed, sel, << >> >>}
    ELSE UNION {IF picked \in files THEN {<<picked, sel, <<picked>> >>}
                ELSE {<<o[1], o[2], <<picked>> \o o[3]>> :
                         o \in PickWithRetry(RemoveSeed(sel, picked), strategy,
                                             candidates, n - 1, files)}
                : picked \in PickFn(strategy, candidates)}

\* select: the set of possible outcomes <<picked, selector, picks>>
Select(sel, strategy, want_promoted, files) ==
    IF sel.seeds = {} THEN {<<NoSeed, sel, << >> >>}
    ELSE LET eligible == EligibleSeeds(sel)
         IN  IF eligible = {} THEN {<<NoSeed, sel, << >> >>}
             ELSE LET pool == ChoosePoolCandidates(sel, eligible, want_promoted)
                      candidates == CandidatesWithinWindow(sel, pool)
                      outs == PickWithRetry(sel, strategy, candidates,
                                            sel.pick_retry_limit, files)
                  IN  {IF o[1] # NoSeed
                       THEN <<o[1], RecordPick(o[2], o[1]), o[3]>>
                       ELSE o : o \in outs}

Strategies == {"random", "ttdn_metric"}


(***************************************************************************)
(* Differential oracle (worker_main, compilation and classification)        *)
(***************************************************************************)

\* CompilationStatus
Status == {"SUCCESS", "ERROR", "HANG", "CRASH", "UNKNOWN"}
NoResult == "None"
NoCfg == [none |-> TRUE]
NoJudgement == [none |-> TRUE]

\* The per-pass state as reset at the start of a fuzz pass
NoResults == [stable |-> NoResult, nightly |-> NoResult, next |-> NoResult]

\* Python's bool, held as a string beside "None"
Bool(x) == IF x THEN "True" ELSE "False"

NoBaseline ==
    [seed_baseline_results |-> NoResults,
     seed_is_fate |-> "None",
     seed_is_miscompilation |-> "None"]

\* The statuses the compiler runs are let return in the runs of c: all of
\* them, unless the runs explored are narrowed to some
ReturnedStatuses(c) ==
    IF "statuses" \in DOMAIN c THEN c.statuses ELSE Status

\* What the compiler runs of one source return: one status per configuration
\* that is run
Outcomes(c) ==
    [stable : ReturnedStatuses(c),
     nightly : IF c.enable_nightly_compile THEN ReturnedStatuses(c)
               ELSE {NoResult},
     next : IF c.enable_next_solver THEN ReturnedStatuses(c) ELSE {NoResult}]

\* _rank, and the order table of _is_seed_fate
Rank(st) ==
    CASE st = "CRASH" -> 4
      [] st = "HANG" -> 3
      [] st = "ERROR" -> 2
      [] st = "SUCCESS" -> 1
      [] OTHER -> 0

\* The three compilations of one source: stable always, +nightly and
\* -Znext-solver when enabled.  The thread-pool branch (parallel_compile and
\* an extra configuration enabled) submits the same three compilations and
\* collects their results by name; the sequential branch runs them in turn.
CompileAll(c, out) ==
    IF c.parallel_compile /\ (c.enable_nightly_compile \/ c.enable_next_solver)
    THEN [stable |-> out.stable,
          nightly |-> IF c.enable_nightly_compile THEN out.nightly ELSE NoResult,
          next |-> IF c.enable_next_solver THEN out.next ELSE NoResult]
    ELSE [stable |-> out.stable,
          nightly |-> IF c.enable_nightly_compile THEN out.nightly ELSE NoResult,
          next |-> IF c.enable_next_solver THEN out.next ELSE NoResult]

Overall_NextIgnored(res) ==
    IF res.nightly # NoResult /\ Rank(res.nightly) > Rank(res.stable)
    THEN res.nightly ELSE res.stable

\* Overall status: start from stable, take nightly and then next when ranked
\* strictly higher.
Overall(res) ==
    LET r1 == IF res.nightly # NoResult /\ Rank(res.nightly) > Rank(res.stable)
              THEN res.nightly ELSE res.stable
    IN  IF res.next # NoResult /\ Rank(res.next) > Rank(r1)
        THEN res.next ELSE r1

\* status.value.lower()
Lower(st) ==
    CASE st = "CRASH" -> "crash"
      [] st = "HANG" -> "hang"
      [] st = "ERROR" -> "error"
      [] st = "SUCCESS" -> "success"
      [] OTHER -> "unknown"

\* nst and xst both in (SUCCESS, ERROR) and different
Disagree(nst, xst) ==
    /\ nst \in {"SUCCESS", "ERROR"}
    /\ xst \in {"SUCCESS", "ERROR"}
    /\ nst # xst

MiscompilationFlag_AnyDifference(c, res) ==
    /\ c.detect_miscompilation /\ c.enable_nightly_compile /\ c.enable_next_solver
    /\ res.nightly # NoResult /\ res.next # NoResult
    /\ res.nightly # res.next

\* The mutant-level miscompilation flag
MiscompilationFlag(c, res) ==
    /\ c.detect_miscompilation /\ c.enable_nightly_compile /\ c.enable_next_solver
    /\ res.nightly # NoResult /\ res.next # NoResult
    /\ Disagree(res.nightly, res.next)

\* A baseline that is compiled again at every call
CompileSeedBaseline_Uncached(c, b, bout) ==
    [b EXCEPT !.seed_baseline_results =
        [stable |-> bout.stable,
         nightly |-> IF c.enable_nightly_compile THEN bout.nightly ELSE NoResult,
         next |-> IF c.enable_next_solver THEN bout.next ELSE NoResult]]

\* _compile_seed_baseline: compiled once per pass, then cached
CompileSeedBaseline(c, b, bout) ==
    IF b.seed_baseline_results # NoResults THEN b
    ELSE [b EXCEPT !.seed_baseline_results =
             [stable |-> bout.stable,
              nightly |-> IF c.enable_nightly_compile THEN bout.nightly ELSE NoResult,
              next |-> IF c.enable_next_solver THEN bout.next ELSE NoResult]]

\* The worst-ranked status over the configurations that were run
WorstStatus(res) ==
    LET present == {res.stable, res.nightly, res.next} \ {NoResult}
    IN  CHOOSE st \in present : \A o \in present : Rank(st) >= Rank(o)

\* _is_seed_fate: the cache after the call; its seed_is_fate is the answer
IsSeedFate(c, b, bout) ==
    IF b.seed_is_fate # "None" THEN b
    ELSE LET b1 == CompileSeedBaseline(c, b, bout)
         IN  [b1 EXCEPT !.seed_is_fate =
                 Bool(WorstStatus(b1.seed_baseline_results) \in {"CRASH", "HANG"})]

IsSeedMiscompilation_NeverTrue(c, b, bout) ==
    IF b.seed_is_miscompilation # "None" THEN b
    ELSE [b EXCEPT !.seed_is_miscompilation = "False"]

\* _is_seed_miscompilation: the cache after the call
IsSeedMiscompilation(c, b, bout) ==
    IF b.seed_is_miscompilation # "None" THEN b
    ELSE IF ~c.detect_miscompilation
         THEN [b EXCEPT !.seed_is_miscompilation = "False"]
    ELSE IF ~(c.enable_nightly_compile /\ c.enable_next_solver)
         THEN [b EXCEPT !.seed_is_miscompilation = "False"]
    ELSE LET b1 == CompileSeedBaseline(c, b, bout)
             rn == b1.seed_baseline_results.nightly
             rx == b1.seed_baseline_results.next
         IN  IF rn = NoResult \/ rx = NoResult
             THEN [b1 EXCEPT !.seed_is_miscompilation = "False"]
             ELSE [b1 EXCEPT !.seed_is_miscompilation = Bool(Disagree(rn, rx))]

\* Categorize: status_name, should_persist, the miscompilation flag, the fate
\* relabels, the halt flags (skip_remaining_rounds and kill_fate_now are set
\* together, with the family ban) and dest_statuses.  bout is what the
\* baseline's compilations return if this judgement is the one to run them.
Classify(c, b, res, bout) ==
    LET overall == Overall(res)
        persist0 == ~(overall = "SUCCESS" /\ c.keep_success_cases = 0)
        mis0 == MiscompilationFlag(c, res)
        b1 == IF mis0 THEN IsSeedMiscompilation(c, b, bout) ELSE b
        relabel == mis0 /\ b1.seed_is_miscompilation = "True"
        name1 == IF relabel THEN "fate" ELSE Lower(overall)
        persist1 == persist0 \/ relabel
        mis1 == mis0 /\ ~relabel
        isBug == persist1 /\ overall \in {"CRASH", "HANG"}
        b2 == IF isBug THEN IsSeedFate(c, b1, bout) ELSE b1
        name2 == IF isBug /\ b2.seed_is_fate = "True" THEN "fate" ELSE name1
    IN  [results |-> res,
         overall |-> overall,
         status_name |-> name2,
         should_persist |-> persist1,
         miscompilation |-> mis1,
         halt |-> isBug,
         dest_statuses |-> (IF persist1 THEN <<name2>> ELSE << >>)
                           \o (IF mis1 THEN <<"miscompilation">> ELSE << >>),
         baseline |-> b2]

\* The files of a case directory
CaseLayout == {"before.rs", "after.rs", "detail.log"}

\* The <<category, file>> written for one judged mutant: before.rs and
\* after.rs are copied into the case directory of every destination
\* category, in turn; detail.log is then written into dest_case, the
\* directory the loop over the destinations made last
PersistCase(dest_statuses) ==
    LET n == Len(dest_statuses)
    IN  {<<dest_statuses[k], f>> : k \in 1..n, f \in {"before.rs", "after.rs"}}
        \cup (IF n = 0 THEN {} ELSE {<<dest_statuses[n], "detail.log">>})

\* Whether Classify runs the baseline's compilations
CompilesBaseline(c, b, res) ==
    /\ b.seed_baseline_results = NoResults
    /\ \/ Overall(res) \in {"CRASH", "HANG"}
       \/ MiscompilationFlag(c, res)

\* The judgements one mutant can get: its compilations return any statuses,
\* and so do the baseline's if this judgement is the one to run them
Judgements(c, b) ==
    UNION {{Classify(c, b, CompileAll(c, mout), bout) :
               bout \in IF CompilesBaseline(c, b, CompileAll(c, mout))
                        THEN Outcomes(c) ELSE {mout}}
           : mout \in Outcomes(c)}

\* What the worker's control flow reads of a judgement
Verdict(j) ==
    [overall |-> j.overall,
     status_name |-> j.status_name,
     dest_statuses |-> j.dest_statuses,
     halt |-> j.halt,
     baseline |-> j.baseline]

(***************************************************************************)
(* The selector driven through its public calls                            *)
(***************************************************************************)

MaxSelects == 3

\* SeedSelector.__init__ for one shard: the seeds found on disk, no picks,
\* empty windows, nothing banned.  The knobs are read from config.fuzzer.
SelectorInit(found, rw, frw, maxp, retry) ==
    [seeds |-> found,
     promoted_seeds |-> {s \in found : IsPromotedSeed(s)},
     pick_counts |-> [s \in Paths |-> 0],
     recent |-> << >>,
     family_pick_counts |-> [f \in AllFamilies |-> 0],
     family_recent |-> << >>,
     seed_family |-> [s \in Paths |-> NoFam],
     banned_families |-> {},
     repeat_window |-> IF rw < 0 THEN 0 ELSE rw,
     family_repeat_window |-> IF frw < 0 THEN 0 ELSE frw,
     max_picks_per_seed |-> maxp,
     pick_retry_limit |-> IF retry <= 0 THEN 1 ELSE retry]

\* The knob combinations explored: <<seed_repeat_window,
\* seed_family_repeat_window, seed_max_picks_per_seed, seed_pick_retry_limit>>
SelectorKnobs == {<<0, 0, 1, 1>>, <<1, 1, 2, 2>>, <<2, 0, NoLimit, 2>>}

\* What the caller of the selector has been handed: how often select has
\* returned each seed since the seed is in the pool
NothingReturned == [returned |-> [s \in Paths |-> 0]]

\* The caller's tally after a call that left the pool sel and returned
\* picked (NoSeed for a call that is not a select or returned None)
Returned(tally, sel, picked) ==
    [returned |-> [s \in Paths |->
        IF s \notin sel.seeds THEN 0
        ELSE IF s = picked THEN tally.returned[s] + 1
        ELSE tally.returned[s]]]

InitSelector ==
    /\ \E found \in SUBSET Seeds : \E k \in SelectorKnobs :
          /\ found # {}
          /\ disk \in {found, Seeds}
          /\ selector = SelectorInit(found, k[1], k[2], k[3], k[4])
    /\ ret = NoSeed
    /\ nsel = 0
    /\ cfg = NoCfg
    /\ baseline = NoBaseline
    /\ judged = NoJudgement
    /\ w = NothingReturned /\ obs = Idle
    /\ results_dir = {} /\ enforced = Idle /\ clock = Idle

\* What a select call started from and the picks its retry loop made
Selected(sel, files, want_promoted, picks) ==
    [before |-> sel, files |-> files, want_promoted |-> want_promoted,
     picks |-> picks]

CallSelect ==
    /\ nsel < MaxSelects
    /\ \E strategy \in Strategies, want_promoted \in BOOLEAN :
          \E o \in Select(selector, strategy, want_promoted, disk) :
             /\ ret' = o[1]
             /\ selector' = o[2]
             /\ obs' = Selected(selector, disk, want_promoted, o[3])
             /\ w' = Returned(w, o[2], o[1])
    /\ nsel' = nsel + 1
    /\ UNCHANGED <<disk, selectorIdle>>

CallAddSeed ==
    /\ \E s \in Seeds, family_id \in Families \cup {NoFam},
          internal \in BOOLEAN :
          /\ IsPromotedSeed(s) \/ family_id = NoFam
          /\ selector' = AddSeed(selector, s, family_id, s \in disk, internal)
    /\ ret' = NoSeed
    /\ obs' = Idle
    /\ UNCHANGED <<disk, nsel, w, selectorIdle>>

CallRemoveSeed ==
    /\ \E s \in Seeds : selector' = RemoveSeed(selector, s)
    /\ ret' = NoSeed
    /\ obs' = Idle
    /\ w' = Returned(w, selector', NoSeed)
    /\ UNCHANGED <<disk, nsel, selectorIdle>>

CallBanFamily ==
    /\ \E f \in Families : selector' = BanFamily(selector, f)
    /\ ret' = NoSeed
    /\ obs' = Idle
    /\ UNCHANGED <<disk, nsel, w, selectorIdle>>

\* Another process prunes a seed file
FileDeleted ==
    /\ \E s \in disk : disk' = disk \ {s}
    /\ UNCHANGED <<selector, ret, nsel, obs, w, selectorIdle>>

NextSelector ==
    \/ CallSelect
    \/ CallAddSeed
    \/ CallRemoveSeed
    \/ CallBanFamily
    \/ FileDeleted

SpecSelector == InitSelector /\ [][NextSelector]_vars

\* C3: a select call never returns a seed whose family is in the banned set
\* (with either strategy and either pool draw), and no call ever takes a
\* family out of the banned set; so once ban_family(f) was called no later
\* select returns a seed of family f.
C3_BannedFamilyNeverSelected ==
    [][/\ selector.banned_families \subseteq selector'.banned_families
       /\ (nsel' # nsel /\ ret' # NoSeed)
             => FamilyKey(selector', ret') \notin selector'.banned_families]_vars

\* A select call has just returned a seed while a seed of a banned family was
\* in the pool, on disk and within its pick budget.
C3_Witness ==
    /\ ret # NoSeed
    /\ \E s \in selector.seeds \cap disk :
          /\ FamilyKey(selector, s) \in selector.banned_families
          /\ s \in EligibleSeeds_NoBanFilter(selector)

(***************************************************************************)
(* The oracle judging the mutants of one seed, pass after pass              *)
(***************************************************************************)

\* compiler.enable_nightly_compile, compiler.enable_next_trait_solver,
\* compiler.parallel_compile, --[no-]detect-miscompilation and
\* --keep-success-cases (0 disables SUCCESS persistence)
OracleConfigs ==
    [enable_nightly_compile : BOOLEAN,
     enable_next_solver : BOOLEAN,
     detect_miscompilation : BOOLEAN,
     parallel_compile : BOOLEAN,
     keep_success_cases : {0, 1}]

InitOracle ==
    /\ cfg \in OracleConfigs
    /\ baseline = NoBaseline
    /\ judged = NoJudgement
    /\ selector = Idle
    /\ disk = {}
    /\ ret = NoSeed
    /\ nsel = 0
    /\ w = Idle /\ obs = Idle
    /\ results_dir = {} /\ enforced = Idle /\ clock = Idle

\* "Reset key per-pass state" at the start of a fuzz pass
StartPass ==
    /\ judged = NoJudgement
    /\ baseline # NoBaseline
    /\ baseline' = NoBaseline
    /\ UNCHANGED <<judged, cfg, obs, oracleIdle>>

\* The loop over planned_strategies moves on to the next planned strategy
NextVariant ==
    /\ judged # NoJudgement
    /\ judged' = NoJudgement
    /\ obs' = Idle
    /\ UNCHANGED <<baseline, cfg, oracleIdle>>

\* One mutant compiled, categorized and persisted
JudgeVariant ==
    /\ judged = NoJudgement
    /\ \E j \in Judgements(cfg, baseline) :
          /\ judged' = j
          /\ baseline' = j.baseline
          /\ obs' = [files |-> PersistCase(j.dest_statuses)]
    /\ UNCHANGED <<cfg, oracleIdle>>

NextOracle == StartPass \/ NextVariant \/ JudgeVariant

SpecOracle == InitOracle /\ [][NextOracle]_vars

Judged == judged # NoJudgement
InDest(cat) == \E k \in 1..Len(judged.dest_statuses) : judged.dest_statuses[k] = cat
BaseResults == judged.baseline.seed_baseline_results
BaseCompiled == BaseResults # NoResults

\* C7: the overall status is one of the results of the configurations run and
\* no configuration that was run has a higher-ranked result, for one, two or
\* three configurations and in both compile modes.
C7_OverallIsHighestRanked ==
    Judged =>
       LET present == {judged.results.stable, judged.results.nightly,
                       judged.results.next} \ {NoResult}
       IN  /\ judged.overall \in present
           /\ \A st \in present : Rank(judged.overall) >= Rank(st)
           /\ Rank("CRASH") > Rank("HANG") /\ Rank("HANG") > Rank("ERROR")
           /\ Rank("ERROR") > Rank("SUCCESS") /\ Rank("SUCCESS") > Rank("UNKNOWN")

\* Three configurations compiled in parallel, the third one deciding
C7_Witness ==
    /\ Judged
    /\ cfg.parallel_compile
    /\ judged.results.nightly # NoResult
    /\ judged.results.next = "HANG"
    /\ judged.results.stable = "SUCCESS"
    /\ judged.results.nightly = "ERROR"
    /\ judged.overall = "HANG"

\* One status SUCCESS and the other ERROR
OneSuccessOneError(res) == {res.nightly, res.next} = {"SUCCESS", "ERROR"}
BothExtrasDetected ==
    cfg.detect_miscompilation /\ cfg.enable_nightly_compile /\ cfg.enable_next_solver
BaselineWorstIsBug ==
    \E st \in {BaseResults.stable, BaseResults.nightly, BaseResults.next} :
       st \in {"CRASH", "HANG"}

\* C2 as stated: a CRASH/HANG mutant goes to 'fate' exactly when the
\* baseline's worst status is CRASH or HANG, and to the category of its own
\* status otherwise, whatever nightly and next-solver returned.
C2_FateIffBaselineCrashOrHang ==
    (Judged /\ judged.overall \in {"CRASH", "HANG"}) =>
       /\ InDest("fate") <=> BaselineWorstIsBug
       /\ ~BaselineWorstIsBug => InDest(Lower(judged.overall))

\* C5: with detection and both extra configurations enabled, a mutant is put
\* in 'miscompilation' only if its nightly and next-solver results are one
\* SUCCESS and one ERROR, and whenever that holds and the baseline's two
\* results agree; the decision is a function of these four results alone, the
\* stable result has no part in it.
C5_MiscompilationFlag ==
    (Judged /\ BothExtrasDetected) =>
       /\ InDest("miscompilation") => OneSuccessOneError(judged.results)
       /\ (OneSuccessOneError(judged.results)
             /\ BaseResults.nightly = BaseResults.next)
          => InDest("miscompilation")
       /\ InDest("miscompilation") <=>
             (OneSuccessOneError(judged.results) /\ ~OneSuccessOneError(BaseResults))

\* A mutant that crashes on stable is flagged all the same
C5_Witness ==
    /\ Judged /\ BothExtrasDetected
    /\ judged.results.stable = "CRASH"
    /\ OneSuccessOneError(judged.results)
    /\ BaseCompiled /\ BaseResults.nightly = BaseResults.next
    /\ InDest("miscompilation")

StructuralOps ==
    {"add_assoc_type", "add_trait", "add_impl", "constraint_injection"}

\* The --mode values the planned strategies take
MutationModes ==
    StructuralOps \cup
    {"projection_rewrite", "lifetime_obfuscation", "lifetime_outlive"}

\* File contents.  A seed file's content is named after the seed; Rewritten
\* is what the LLM rewrite returns, Mutants what the mutation tool writes.
NoContent == "None"
Rewritten == "rw"
Mutants == {"m1", "m2"}

\* The largest candidate count the mutation tool reports
MaxCount == 2

\* hashlib.sha256(content.encode()).hexdigest(), taken to be collision-free
Sha256(content) == <<"sha256", content>>

\* [x] * n
Repeat(x, n) == [k \in 1..n |-> x]

\* _pick_structural_op: the operators random.choices can return
PickStructuralOp(c) ==
    LET positive == {op \in StructuralOps : c.structural_subweights[op] > 0}
    IN  IF positive = {} THEN StructuralOps ELSE positive

\* planned_strategies of one round: the per-round counts of the four
\* non-structural mutations unless --structural-only, then
\* structural_mutations_per_round picks of a structural operator
PlannedStrategies(c) ==
    LET fixed == IF c.structural_only THEN << >>
                 ELSE Repeat("constraint_injection", c.injection_mutations_per_round)
                      \o Repeat("projection_rewrite", c.projection_mutations_per_round)
                      \o Repeat("lifetime_obfuscation", c.lifetime_mutations_per_round)
                      \o Repeat("lifetime_outlive", c.outlive_mutations_per_round)
    IN  {fixed \o picks :
            picks \in [1..c.structural_mutations_per_round -> PickStructuralOp(c)]}

\* What one run of the mutation tool reports on stderr about its choice:
\* nothing, or a candidate count and the index it mutated.  forced is the
\* index passed on the command line, if any ({} or a singleton).
NoReport == [none |-> TRUE]
Reports(forced) ==
    {NoReport} \cup
    {r \in [count : 0..MaxCount, index : 0..(MaxCount - 1)] :
        /\ r.count = 0 => r.index = 0
        /\ r.count > 0 => r.index < r.count
        /\ \A f \in forced : f < r.count => r.index = f}

\* The outcomes of one run of the mutation tool: a non-zero exit, "Parse
\* failed:", "No mutation performed", an output file, or none of these
ToolRuns(forced) ==
    {[kind |-> k, content |-> NoContent, report |-> NoReport] :
        k \in {"failed", "parse_failed", "no_output"}}
    \cup {[kind |-> "noop", content |-> NoContent, report |-> r] :
             r \in Reports(forced)}
    \cup {[kind |-> "mutated", content |-> m, report |-> r] :
             m \in Mutants, r \in Reports(forced)}

\* dict[key] = value
Put(d, key, value) ==
    [k \in DOMAIN d \cup {key} |-> IF k = key THEN value ELSE d[k]]

\* the planned strategy of the current turn of the loop
CurrentStrategy(wk) == wk.planned_strategies[wk.planned]

\* A loop over planned_strategies that passes over no strategy
SkipsPlanned_Never(wk, planned) == FALSE

\* `if planned in exhausted_in_round: continue`
SkipsPlanned(wk, planned) == planned \in wk.exhausted_in_round

\* `continue` in the loop over planned_strategies.  The locals of the turn
\* are dead from here on (each is assigned again before it is read) and are
\* put back to what they are before the first turn.
NextPlanned(wk) ==
    [wk EXCEPT !.pc = "plan",
               !.attempt = 0,
               !.inapplicable_retries = 0,
               !.mutated_content = NoContent]

\* The end of a round (the loop over planned_strategies has run out or was
\* left by `break`); the locals of the round are dead from here on
EndRound(wk) ==
    [wk EXCEPT !.pc = "round",
               !.round_seed_content = NoContent,
               !.used_indices_by_strategy = [m \in MutationModes |-> {}],
               !.known_candidate_counts = << >>,
               !.exhausted_in_round = {},
               !.planned_strategies = << >>,
               !.planned = 0,
               !.attempt = 0,
               !.inapplicable_retries = 0,
               !.mutated_content = NoContent]

\* The end of a fuzz pass; the locals of the pass are dead from here on
EndPass(wk) ==
    [wk EXCEPT !.pc = "pass",
               !.current_seed_content = NoContent,
               !.seen_mutations_by_strategy = {},
               !.variant_index = 0,
               !.skip_seed_due_to_parse = FALSE,
               !.skip_remaining_rounds = FALSE,
               !.round = 0]

\* A retry loop that takes one turn more than max_retries
Retry_OneMore(wk, max_retries) ==
    IF wk.attempt + 1 > max_retries THEN NextPlanned(wk)
    ELSE [wk EXCEPT !.attempt = @ + 1]

\* `continue` in the retry loop; a retry loop that runs out leaves
\* mutated_content None, "Failed to produce mutation"
Retry(wk, max_retries) ==
    IF wk.attempt + 1 >= max_retries THEN NextPlanned(wk)
    ELSE [wk EXCEPT !.attempt = @ + 1]

\* inapplicable_retries += 1, then skip at max_retries or retry
RetryInapplicable(wk, max_retries) ==
    LET w1 == [wk EXCEPT !.inapplicable_retries = @ + 1]
    IN  IF w1.inapplicable_retries >= max_retries THEN NextPlanned(w1)
        ELSE Retry(w1, max_retries)

\* What the retry loop does with one run of the mutation tool: record the
\* reported choice, then "Parse failed:", "No mutation performed", the
\* output file and its duplicate check.  (exhausted_strategies is written
\* here and never read; it is left out.)
AfterTool(wk, sel, c, run) ==
    LET cs == CurrentStrategy(wk)
        max_retries == c.mutation_max_retries
        w1 == IF run.report = NoReport THEN wk
              ELSE [wk EXCEPT
                       !.known_candidate_counts = Put(@, cs, run.report.count),
                       !.used_indices_by_strategy[cs] = @ \cup {run.report.index}]
        h == <<cs, Sha256(run.content)>>
    IN  CASE run.kind = "failed" ->
                [w |-> Retry(wk, max_retries), selector |-> sel]
          [] run.kind = "parse_failed" ->
                IF w1.round_seed_content = w1.seed_content
                THEN [w |-> NextPlanned([w1 EXCEPT
                                 !.bad_seeds = @ \cup {w1.seed_path},
                                 !.skip_seed_due_to_parse = TRUE]),
                      selector |-> RemoveSeed(sel, w1.seed_path)]
                ELSE [w |-> NextPlanned([w1 EXCEPT
                                 !.skip_seed_due_to_parse = TRUE]),
                      selector |-> sel]
          [] run.kind = "noop" ->
                IF cs \in {"add_trait", "add_impl", "constraint_injection"}
                THEN [w |-> NextPlanned([w1 EXCEPT
                                 !.exhausted_in_round = @ \cup {cs}]),
                      selector |-> sel]
                ELSE [w |-> RetryInapplicable(w1, max_retries), selector |-> sel]
          [] run.kind = "mutated" ->
                IF h \in w1.seen_mutations_by_strategy
                THEN [w |-> RetryInapplicable(w1, max_retries), selector |-> sel]
                ELSE [w |-> [w1 EXCEPT
                                !.seen_mutations_by_strategy = @ \cup {h},
                                !.mutated_content = run.content,
                                !.pc = "compile"],
                      selector |-> sel]
          [] OTHER ->
                [w |-> Retry(w1, max_retries), selector |-> sel]

\* One turn of the mutation retry loop: the outcomes [w, selector, invoked,
\* forced, report], invoked telling whether the mutation tool was run, forced
\* the index passed to it ({} or a singleton), report what it reported
Attempt(wk, sel, c) ==
    LET cs == CurrentStrategy(wk)
        max_retries == c.mutation_max_retries
        known == cs \in DOMAIN wk.known_candidate_counts
        used == wk.used_indices_by_strategy[cs]
        exhausted == [wk EXCEPT !.exhausted_in_round = @ \cup {cs}]
    IN  IF known /\ wk.known_candidate_counts[cs] <= 0
        THEN {[w |-> NextPlanned(exhausted), selector |-> sel, invoked |-> FALSE,
               forced |-> {}, report |-> NoReport]}
        ELSE IF known /\ Cardinality(used) >= wk.known_candidate_counts[cs]
        THEN {[w |-> IF cs \in {"constraint_injection", "add_trait", "add_impl"}
                     THEN NextPlanned([exhausted EXCEPT
                                          !.inapplicable_retries = @ + 1])
                     ELSE RetryInapplicable(exhausted, max_retries),
               selector |-> sel, invoked |-> FALSE,
               forced |-> {}, report |-> NoReport]}
        ELSE LET forced_index ==
                     IF known
                     THEN {{k} : k \in (0..(wk.known_candidate_counts[cs] - 1)) \ used}
                     ELSE {{}}
             IN  UNION {{[w |-> AfterTool(wk, sel, c, run).w,
                          selector |-> AfterTool(wk, sel, c, run).selector,
                          invoked |-> TRUE,
                          forced |-> forced,
                          report |-> run.report] : run \in ToolRuns(forced)}
                        : forced \in forced_index}

\* seed_path = selector.select(...), selected again while it is a bad seed
\* and the pool is not empty: the outcomes <<picked, selector>>
RECURSIVE SelectUsable(_, _, _, _, _)
SelectUsable(sel, strategy, bad_seeds, files, n) ==
    UNION {UNION {IF o[1] # NoSeed /\ o[1] \in bad_seeds /\ o[2].seeds # {} /\ n > 0
                  THEN SelectUsable(o[2], strategy, bad_seeds, files, n - 1)
                  ELSE {o}
                  : o \in Select(sel, strategy, want_promoted, files)}
           : want_promoted \in BOOLEAN}

\* What shutil.disk_usage can show the free-disk guard: free space below
\* min_free_gb or not; without min_free_gb the disk is not measured
LowDisk(c) == IF c.min_free_gb_set THEN BOOLEAN ELSE {FALSE}

\* A guard that never stops the worker
DiskFreeGuard_NeverStops(c, low_disk) == TRUE

\* The free-disk guard, the last step of enforce_results_limits: what a call
\* returns that raised nothing
DiskFreeGuard(c, low_disk) == ~(c.min_free_gb_set /\ low_disk)

\* No retention check made yet for the selected seed
NoCheck == [none |-> TRUE]

\* What the worker's last call of enforce_results_limits met and returned
Check(low_disk, returned) == [low_disk |-> low_disk, returned |-> returned]

\* Whether this judgement bans the seed's family
BansFamily_OnlyWhenFate(j) == j.halt /\ j.baseline.seed_is_fate = "True"

\* Whether this judgement bans the seed's family: the ban is issued together
\* with skip_remaining_rounds, for a CRASH/HANG mutant that is persisted
BansFamily(j) == j.halt

\* What is observed of the baseline when a mutant of base content
\* wk.round_seed_content gets verdict v, the cache being b before: the
\* baseline is compiled when the cached results change, from the file that
\* holds current_seed_content; the verdict consults it when the mutant is a
\* persisted CRASH/HANG or its two nightly results disagree
BaselineObserved(o, wk, b, v) ==
    LET old == b.seed_baseline_results
        new == v.baseline.seed_baseline_results
        compiled == new # old
        source == IF compiled THEN wk.current_seed_content ELSE o.baseline_source
        disagreed == \/ \E k \in DOMAIN v.dest_statuses :
                           v.dest_statuses[k] = "miscompilation"
                     \/ (v.status_name = "fate" /\ ~v.halt)
    IN  [o EXCEPT
            !.baseline_source = source,
            !.baseline_compiles =
                [k \in DOMAIN @ |->
                    IF compiled /\ new[k] # NoResult THEN @[k] + 1 ELSE @[k]],
            !.triggered = @ \/ v.overall \in {"CRASH", "HANG"} \/ disagreed,
            !.foreign_baseline =
                @ \/ (/\ v.halt \/ disagreed
                      /\ source # wk.round_seed_content)]

\* What is observed of the baseline at the start and at the end of a pass
PassObserved(o) ==
    [o EXCEPT !.baseline_source = NoContent,
              !.baseline_compiles = [stable |-> 0, nightly |-> 0, next |-> 0],
              !.triggered = FALSE]

\* The locals of worker_main before the fuzzing loop
WorkerLocals ==
    [pc |-> "start",
     i |-> 0,
     bad_seeds |-> {},
     seed_path |-> NoSeed,
     seed_content |-> NoContent,
     ancestor_family |-> NoFam,
     fuzz_passes |-> << >>,
     pass |-> 0,
     current_seed_content |-> NoContent,
     seen_mutations_by_strategy |-> {},
     variant_index |-> 0,
     skip_seed_due_to_parse |-> FALSE,
     skip_remaining_rounds |-> FALSE,
     round |-> 0,
     round_seed_content |-> NoContent,
     used_indices_by_strategy |-> [m \in MutationModes |-> {}],
     known_candidate_counts |-> << >>,
     exhausted_in_round |-> {},
     planned_strategies |-> << >>,
     planned |-> 0,
     attempt |-> 0,
     inapplicable_retries |-> 0,
     mutated_content |-> NoContent]

\* Nothing observed yet for the selected seed.  bugs: the categories the
\* CRASH/HANG mutants of this seed were filed under; tool_after_bug and
\* compiled_after_bug: the mutation tool was run, a mutant was compiled,
\* after such a mutant; written: the <<strategy, content>> of the case
\* records written, in order; unpersisted: a CRASH/HANG mutant was judged and
\* the worker left its turn of the loop without having written its case
\* record; miscompiled: a mutant of this seed was filed under miscompilation;
\* tool_after_miscompilation: the mutation tool was run after such a mutant.
\* Of the current round: tried, the <<strategy, index>> the tool reported to
\* have mutated; all_tried, the strategies for which every index below the
\* reported count was tried; forced_tried, an index was forced that had been
\* tried; tool_after_all_tried, the tool was run for a strategy of all_tried;
\* abandoned: the <<pass, round, strategy>> at which a strategy was given up
\* (a no-op of add_trait, add_impl or constraint_injection, or no candidate
\* left); tool_on_abandoned: the tool was run for a strategy given up earlier
\* in the round; passed_over: a planned strategy was passed over.
\* unparsable: the tool found the selected seed's own content unparsable;
\* tool_after_unparsable: the tool was run for the seed after that.
\* Of the current planned strategy: tool_runs, how often the tool was run;
\* handed, how many mutants went on to be compiled.
\* Of the current pass: baseline_source, the content _compile_seed_baseline
\* wrote to the file it compiled; baseline_compiles, how often each
\* configuration compiled the baseline; triggered, a mutant was CRASH or HANG
\* or its +nightly and -Znext-solver results disagreed.  foreign_baseline: a
\* mutant was judged against the baseline of a content other than the one it
\* was mutated from.
NothingObserved ==
    [bugs |-> {},
     tool_after_bug |-> FALSE,
     compiled_after_bug |-> FALSE,
     written |-> << >>,
     unpersisted |-> FALSE,
     miscompiled |-> FALSE,
     tool_after_miscompilation |-> FALSE,
     tried |-> {},
     all_tried |-> {},
     forced_tried |-> FALSE,
     tool_after_all_tried |-> FALSE,
     abandoned |-> {},
     tool_on_abandoned |-> FALSE,
     passed_over |-> FALSE,
     unparsable |-> FALSE,
     tool_after_unparsable |-> FALSE,
     tool_runs |-> 0,
     handed |-> 0,
     baseline_source |-> NoContent,
     baseline_compiles |-> [stable |-> 0, nightly |-> 0, next |-> 0],
     triggered |-> FALSE,
     foreign_baseline |-> FALSE,
     limits |-> NoCheck]

\* config.json and the command line of the runs explored.  Promotion of
\* SUCCESS mutants is switched off (--no-promote-success) in all of them.
WorkerBaseConfig ==
    [enable_nightly_compile |-> FALSE,
     enable_next_solver |-> FALSE,
     detect_miscompilation |-> TRUE,
     parallel_compile |-> FALSE,
     keep_success_cases |-> 1,
     iterations |-> 2,
     mutations_per_seed |-> 2,
     structural_only |-> TRUE,
     injection_mutations_per_round |-> 1,
     projection_mutations_per_round |-> 1,
     lifetime_mutations_per_round |-> 0,
     outlive_mutations_per_round |-> 0,
     structural_mutations_per_round |-> 1,
     structural_subweights |->
         [op \in StructuralOps |->
             IF op \in {"add_trait", "constraint_injection"} THEN 1 ELSE 0],
     mutation_max_retries |-> 2,
     enable_trait_rewrite |-> FALSE,
     seed_selection_strategy |-> "random",
     min_free_gb_set |-> FALSE,
     promote_success |-> FALSE]

WorkerConfigs ==
    {\* structural mutations only, chained over two rounds
     [WorkerBaseConfig EXCEPT !.iterations = 1,
                              !.structural_mutations_per_round = 2],
     \* one projection_rewrite per pass, the LLM rewrite pass, two seeds
     [WorkerBaseConfig EXCEPT !.structural_only = FALSE,
                              !.mutations_per_seed = 1,
                              !.injection_mutations_per_round = 0,
                              !.structural_mutations_per_round = 0,
                              !.enable_trait_rewrite = TRUE,
                              !.seed_selection_strategy = "ttdn_metric"],
     \* an injection and a projection in one round, +nightly compiled too,
     \* the free-disk guard configured
     [WorkerBaseConfig EXCEPT !.structural_only = FALSE,
                              !.iterations = 1,
                              !.mutations_per_seed = 1,
                              !.structural_mutations_per_round = 0,
                              !.enable_nightly_compile = TRUE,
                              !.parallel_compile = TRUE,
                              !.min_free_gb_set = TRUE]}

\* A run with the differential oracle complete: an injection and a projection
\* in one round, each mutant compiled by stable, +nightly and -Znext-solver,
\* the compilers returning SUCCESS, ERROR or CRASH
DifferentialConfig ==
    ("statuses" :> {"SUCCESS", "ERROR", "CRASH"}) @@
    [WorkerBaseConfig EXCEPT !.structural_only = FALSE,
                             !.iterations = 1,
                             !.mutations_per_seed = 1,
                             !.structural_mutations_per_round = 0,
                             !.mutation_max_retries = 1,
                             !.enable_nightly_compile = TRUE,
                             !.enable_next_solver = TRUE]

\* seed_repeat_window, seed_family_repeat_window, seed_max_picks_per_seed and
\* seed_pick_retry_limit of these runs
WorkerKnobs == <<1, 1, 2, 2>>

InitWorker ==
    /\ cfg \in WorkerConfigs
    /\ disk = {"a", "b"}
    /\ \E found \in {{}, {"a", "b"}} :
          selector = SelectorInit(found, WorkerKnobs[1], WorkerKnobs[2],
                                  WorkerKnobs[3], WorkerKnobs[4])
    /\ baseline = NoBaseline
    /\ judged = NoJudgement
    /\ w = WorkerLocals
    /\ obs = NothingObserved
    /\ ret = NoSeed /\ nsel = 0
    /\ results_dir = {} /\ enforced = Idle /\ clock = Idle

\* worker_main up to the fuzzing loop: no seeds, or the first retention check
\* fails, and the worker returns
WorkerStart ==
    /\ w.pc = "start"
    /\ IF selector.seeds = {}
       THEN w' = [w EXCEPT !.pc = "done"] /\ obs' = obs
       ELSE \E low_disk \in LowDisk(cfg) :
               LET ok == DiskFreeGuard(cfg, low_disk)
               IN  /\ w' = [w EXCEPT !.pc = IF ok THEN "select" ELSE "done"]
                   /\ obs' = [obs EXCEPT !.limits = Check(low_disk, ok)]
    /\ UNCHANGED <<selector, disk, cfg, baseline, judged, workerIdle>>

\* The loop over range(iterations) has run out
WorkerFinish ==
    /\ w.pc = "select"
    /\ w.i >= cfg.iterations
    /\ w' = [w EXCEPT !.pc = "done"]
    /\ UNCHANGED <<selector, disk, cfg, baseline, judged, obs, workerIdle>>

\* One turn of the fuzzing loop up to the passes: select a seed, read it,
\* take its family, ask for the LLM rewrite.  missing: the file was deleted
\* between the selector's check and the worker's; rewritten_code: what the
\* rewrite step yields (None for a lock timeout, an error or an empty answer).
WorkerSelect ==
    /\ w.pc = "select"
    /\ w.i < cfg.iterations
    /\ \E o \in SelectUsable(selector, cfg.seed_selection_strategy,
                             w.bad_seeds, disk, Cardinality(Seeds)) :
       \E missing \in BOOLEAN :
       \E rewritten_code \in IF cfg.enable_trait_rewrite
                             THEN {NoContent, Rewritten} ELSE {NoContent} :
          IF o[1] = NoSeed
          THEN /\ missing = FALSE /\ rewritten_code = NoContent
               /\ w' = [w EXCEPT !.i = @ + 1, !.seed_path = NoSeed, !.pc = "done"]
               /\ selector' = o[2]
               /\ UNCHANGED <<disk, baseline, obs>>
          ELSE IF missing
          THEN /\ rewritten_code = NoContent
               /\ disk' = disk \ {o[1]}
               /\ selector' = RemoveSeed(o[2], o[1])
               /\ w' = [w EXCEPT !.i = @ + 1, !.seed_path = o[1]]
               /\ obs' = NothingObserved
               /\ UNCHANGED baseline
          ELSE /\ selector' = o[2]
               /\ w' = [w EXCEPT
                           !.i = @ + 1,
                           !.seed_path = o[1],
                           !.seed_content = o[1],
                           !.current_seed_content = o[1],
                           !.ancestor_family = FamilyKey(o[2], o[1]),
                           !.fuzz_passes = IF rewritten_code = NoContent
                                           THEN <<o[1]>>
                                           ELSE <<o[1], rewritten_code>>,
                           !.pass = 0,
                           !.pc = "pass"]
               /\ baseline' = NoBaseline
               /\ obs' = NothingObserved
               /\ UNCHANGED disk
    /\ UNCHANGED <<cfg, judged, workerIdle>>

\* The loop over fuzz_passes enters its next pass: the pass content becomes
\* the current content and the per-pass state is reset
WorkerStartPass ==
    /\ w.pc = "pass"
    /\ w.pass < Len(w.fuzz_passes)
    /\ w' = [w EXCEPT
                !.pass = @ + 1,
                !.current_seed_content = w.fuzz_passes[w.pass + 1],
                !.seen_mutations_by_strategy = {},
                !.variant_index = 0,
                !.skip_seed_due_to_parse = FALSE,
                !.skip_remaining_rounds = FALSE,
                !.round = 0,
                !.pc = "round"]
    /\ baseline' = NoBaseline
    /\ obs' = PassObserved(obs)
    /\ UNCHANGED <<selector, disk, cfg, judged, workerIdle>>

\* End of one outer iteration: the retention check, whose False return ends
\* the worker
WorkerEndIteration ==
    /\ w.pc = "pass"
    /\ w.pass >= Len(w.fuzz_passes)
    /\ \E low_disk \in LowDisk(cfg) :
          LET ok == DiskFreeGuard(cfg, low_disk)
          IN  /\ w' = [w EXCEPT !.pc = IF ok THEN "select" ELSE "done",
                                 !.seed_content = NoContent,
                                 !.fuzz_passes = << >>,
                                 !.pass = 0]
              /\ obs' = [obs EXCEPT !.limits = Check(low_disk, ok)]
    /\ UNCHANGED <<selector, disk, cfg, baseline, judged, workerIdle>>

\* The loop over range(rounds) enters its next round: the tracking of the
\* round is reset, the current content becomes the round's base and the
\* strategies of the round are planned
WorkerStartRound ==
    /\ w.pc = "round"
    /\ w.round < cfg.mutations_per_seed
    /\ ~(w.skip_seed_due_to_parse \/ w.skip_remaining_rounds)
    /\ \E planned_strategies \in PlannedStrategies(cfg) :
          w' = [w EXCEPT
                   !.round = @ + 1,
                   !.used_indices_by_strategy = [m \in MutationModes |-> {}],
                   !.known_candidate_counts = << >>,
                   !.exhausted_in_round = {},
                   !.round_seed_content = w.current_seed_content,
                   !.planned_strategies = planned_strategies,
                   !.planned = 0,
                   !.pc = "plan"]
    /\ obs' = [obs EXCEPT !.tried = {}, !.all_tried = {}]
    /\ UNCHANGED <<selector, disk, cfg, baseline, judged, workerIdle>>

\* The loop over range(rounds) ends: no round left, or one of the skip flags
WorkerEndPass ==
    /\ w.pc = "round"
    /\ \/ w.round >= cfg.mutations_per_seed
       \/ w.skip_seed_due_to_parse
       \/ w.skip_remaining_rounds
    /\ w' = EndPass(w)
    /\ baseline' = NoBaseline
    /\ judged' = NoJudgement
    /\ obs' = PassObserved(obs)
    /\ UNCHANGED <<selector, disk, cfg, workerIdle>>

\* The loop over planned_strategies takes its next strategy, skipping one
\* that is exhausted in this round; it ends when none is left or the seed
\* did not parse.  The verdict on the previous mutant is dead from here on.
WorkerNextPlanned ==
    /\ w.pc = "plan"
    /\ w' = IF w.planned >= Len(w.planned_strategies) \/ w.skip_seed_due_to_parse
            THEN EndRound(w)
            ELSE IF SkipsPlanned(w, w.planned_strategies[w.planned + 1])
            THEN [w EXCEPT !.planned = @ + 1]
            ELSE [w EXCEPT
                     !.planned = @ + 1,
                     !.variant_index = @ + 1,
                     !.attempt = 0,
                     !.inapplicable_retries = 0,
                     !.mutated_content = NoContent,
                     !.pc = IF cfg.mutation_max_retries > 0
                            THEN "mutate" ELSE "plan"]
    /\ obs' = [obs EXCEPT
                  !.passed_over =
                      @ \/ (/\ w'.planned > w.planned
                            /\ w'.variant_index = w.variant_index),
                  !.tool_runs = IF w'.variant_index > w.variant_index THEN 0 ELSE @,
                  !.handed = IF w'.variant_index > w.variant_index THEN 0 ELSE @]
    /\ judged' = NoJudgement
    /\ UNCHANGED <<selector, disk, cfg, baseline, workerIdle>>

\* One turn of the mutation retry loop
WorkerMutate ==
    /\ w.pc = "mutate"
    /\ \E a \in Attempt(w, selector, cfg) :
          LET cs == CurrentStrategy(w)
              tried == IF a.report = NoReport THEN obs.tried
                       ELSE obs.tried \cup {<<cs, a.report.index>>}
              all == /\ a.report # NoReport
                     /\ a.report.count > 0
                     /\ \A k \in 0..(a.report.count - 1) : <<cs, k>> \in tried
          IN  /\ w' = a.w
              /\ selector' = a.selector
              /\ obs' = [obs EXCEPT
                            !.tool_after_bug = @ \/ (a.invoked /\ obs.bugs # {}),
                            !.tool_after_miscompilation =
                                @ \/ (a.invoked /\ obs.miscompiled),
                            !.tried = tried,
                            !.all_tried = IF all THEN @ \cup {cs} ELSE @,
                            !.forced_tried =
                                @ \/ \E f \in a.forced : <<cs, f>> \in obs.tried,
                            !.tool_after_all_tried =
                                @ \/ (a.invoked /\ cs \in obs.all_tried),
                            !.unparsable = @ \/ a.w.bad_seeds # w.bad_seeds,
                            !.tool_after_unparsable =
                                @ \/ (a.invoked /\ obs.unparsable),
                            !.tool_runs = IF a.invoked THEN @ + 1 ELSE @,
                            !.handed = IF a.w.pc = "compile" THEN @ + 1 ELSE @,
                            !.abandoned =
                                IF cs \in a.w.exhausted_in_round
                                THEN @ \cup {<<w.pass, w.round, cs>>} ELSE @,
                            !.tool_on_abandoned =
                                @ \/ (/\ a.invoked
                                      /\ <<w.pass, w.round, cs>> \in obs.abandoned)]
    /\ UNCHANGED <<disk, cfg, baseline, judged, workerIdle>>

\* The mutant is compiled and categorized; a persisted CRASH/HANG bans the
\* family and sets the halt flags; the retention check precedes the write of
\* the case record; a structural mutant becomes the content the next round
\* starts from, and the tracking of mutation points and duplicates is reset.
WorkerJudge ==
    /\ w.pc = "compile"
    /\ \E v \in {Verdict(j) : j \in Judgements(cfg, baseline)} :
       \E low_disk \in LowDisk(cfg) :
          LET ok == DiskFreeGuard(cfg, low_disk)
              cs == CurrentStrategy(w)
              persists == v.dest_statuses # << >>
              w1 == [w EXCEPT !.skip_remaining_rounds = @ \/ v.halt]
              w2 == IF cs \in StructuralOps
                    THEN [w1 EXCEPT
                             !.current_seed_content = w.mutated_content,
                             !.used_indices_by_strategy =
                                 [m \in MutationModes |-> {}],
                             !.known_candidate_counts = << >>,
                             !.seen_mutations_by_strategy = {}]
                    ELSE w1
              bug == IF v.overall \in {"CRASH", "HANG"}
                     THEN {v.status_name} ELSE {}
              limits == IF persists THEN Check(low_disk, ok) ELSE obs.limits
              seen == BaselineObserved(obs, w, baseline, v)
          IN  /\ persists \/ ~low_disk
              /\ judged' = v
              /\ baseline' = v.baseline
              /\ selector' = IF BansFamily(v)
                             THEN BanFamily(selector, w.ancestor_family)
                             ELSE selector
              /\ IF persists /\ ~ok
                 THEN /\ w' = [w1 EXCEPT !.pc = "done"]
                      /\ obs' = [seen EXCEPT
                            !.bugs = @ \cup bug,
                            !.compiled_after_bug = @ \/ obs.bugs # {},
                            !.unpersisted = @ \/ bug # {},
                            !.limits = limits]
                 ELSE /\ w' = IF v.halt THEN EndRound(w2) ELSE NextPlanned(w2)
                      /\ obs' = [seen EXCEPT
                            !.bugs = @ \cup bug,
                            !.compiled_after_bug = @ \/ obs.bugs # {},
                            !.written = IF persists
                                        THEN Append(@, <<cs, w.mutated_content>>)
                                        ELSE @,
                            !.unpersisted = @ \/ (bug # {} /\ ~persists),
                            !.miscompiled =
                                @ \/ \E k \in DOMAIN v.dest_statuses :
                                         v.dest_statuses[k] = "miscompilation",
                            !.limits = limits]
    /\ UNCHANGED <<disk, cfg, workerIdle>>

NextWorker ==
    \/ WorkerStart
    \/ WorkerSelect
    \/ WorkerStartPass
    \/ WorkerStartRound
    \/ WorkerNextPlanned
    \/ WorkerMutate
    \/ WorkerJudge
    \/ WorkerEndPass
    \/ WorkerEndIteration
    \/ WorkerFinish

SpecWorker == InitWorker /\ [][NextWorker]_vars

\* The worker with all three compiler configurations enabled
InitDifferential ==
    /\ cfg = DifferentialConfig
    /\ disk = {"a"}
    /\ selector = SelectorInit({"a"}, WorkerKnobs[1], WorkerKnobs[2],
                               WorkerKnobs[3], WorkerKnobs[4])
    /\ baseline = NoBaseline
    /\ judged = NoJudgement
    /\ w = WorkerLocals
    /\ obs = NothingObserved
    /\ ret = NoSeed /\ nsel = 0
    /\ results_dir = {} /\ enforced = Idle /\ clock = Idle

SpecDifferential == InitDifferential /\ [][NextWorker]_vars

\* C1: once a mutant of the selected seed was judged CRASH or HANG, the
\* mutation tool is not run and no mutant is compiled for that seed until
\* the next seed is selected: the remaining planned strategies, rounds and
\* fuzz passes are skipped.
C1_NoWorkAfterCrashOrHang ==
    ~obs.tool_after_bug /\ ~obs.compiled_after_bug

\* C4: from the judgement of a CRASH/HANG mutant on, whatever category it
\* was filed under, the family of the selected seed is in the selector's
\* banned set; so it is there before the worker's next select.
C4_FamilyBannedAfterCrashOrHang ==
    obs.bugs # {} => w.ancestor_family \in selector.banned_families

\* The worker is about to select its next seed after a CRASH mutant of a
\* seed whose baseline is clean, and the pool still holds a seed
C4_Witness ==
    /\ w.pc = "select"
    /\ w.i < cfg.iterations
    /\ "crash" \in obs.bugs
    /\ selector.seeds # {}
    /\ w.ancestor_family \in selector.banned_families

\* C8: no two case records written for one selected seed have the same
\* strategy and the same mutant content.
C8_NoDuplicateCaseRecords ==
    \A m, n \in 1..Len(obs.written) :
       m # n => obs.written[m] # obs.written[n]

(***************************************************************************)
(* Retention (enforce_results_limits)                                       *)
(***************************************************************************)

\* An entry under results/ is a case directory [status, name, mtime] of one
\* of the categories; an entry of status "rewrite" is a file of LLM/rewrites.
Categories == {"success", "error", "fate", "crash", "hang", "miscompilation"}
RewriteFile == "rewrite"

\* How many entries are ever created
MaxEntries == 3

\* The size of a case directory, the unit max_results_gb is counted in
CaseBytes == 1

NoEntry == [status |-> "none", name |-> 0, mtime |-> 0]

\* During one call at most one entry is touched by something else: another
\* worker's retention check deletes it at some moment of the call, or its
\* deletion fails ("stuck").  The moments, in the order of the call:
\*   listed        after the listing, before the category's sort
\*   checked       inside that sort, between p.exists() and p.stat()
\*   sorted        after that sort, before the category's deletions
\*   checked_caps  inside the sort of success + error, between exists/stat
\*   pruned        after that sort, before the deletions of the count cap
\*   checked_size  inside the sort of the size cap, between exists/stat
\*   capped        after that sort, before the deletions of the size cap
NoFault == [entry |-> NoEntry, at |-> "never"]

FaultMoments(status) ==
    CASE status \in {"success", "error"} ->
            {"listed", "checked", "sorted", "checked_caps", "pruned",
             "checked_size", "capped", "stuck"}
      [] status = "fate" -> {"listed", "checked", "sorted", "stuck"}
      [] status = RewriteFile -> {"listed", "sorted", "stuck"}
      [] OTHER -> {}

Faults(entries) ==
    {NoFault} \cup
    UNION {{[entry |-> d, at |-> a] : a \in FaultMoments(d.status)} :
              d \in entries}

Vanished(f, moments) == IF f.at \in moments THEN {f.entry} ELSE {}
Stuck(f) == IF f.at = "stuck" THEN {f.entry} ELSE {}
BeforeSort == {"listed"}
BeforeDelete == {"listed", "sorted"}
BeforeCapsSort == {"listed", "checked", "sorted"}
BeforeCapsDelete == {"listed", "checked", "sorted", "checked_caps", "pruned"}
BeforeSizeDelete == {"checked_size", "capped"}

\* _iter_case_dirs_in(results_dir / status), rewrite_dir.glob("*.rs")
EntriesIn(entries, status) == {d \in entries : d.status = status}

\* A target that is the limit itself
WatermarkTarget_NoWatermark(limit) == limit

\* int(limit * _PRUNE_WATERMARK), then min(target, limit)
WatermarkTarget(limit) ==
    LET target == (limit * 9) \div 10
    IN  IF target < limit THEN target ELSE limit

\* The sort key of _sort_oldest_first: the mtime, or the current time for a
\* path that no longer exists
SortKey(d, gone, t) == IF d \in gone THEN t + 1 ELSE d.mtime

\* _sort_oldest_first: the orders sorted() can return, entries of equal key
\* in any order (the listing order is arbitrary)
SortOldestFirst(paths, gone, t) ==
    {q \in [1..Cardinality(paths) -> paths] :
        /\ \A m, n \in 1..Cardinality(paths) : m # n => q[m] # q[n]
        /\ \A m, n \in 1..Cardinality(paths) :
              m < n => SortKey(q[m], gone, t) <= SortKey(q[n], gone, t)}

\* The entries a loop deletes that pops q[1..n] in turn and goes on after a
\* failed deletion
DeletedAll(q, n, failing) == {q[m] : m \in 1..n} \ failing

\* The entries a loop deletes that pops q[1..n] in turn and stops at the
\* first failed deletion
DeletedUntilFailure(q, n, failing) ==
    {q[m] : m \in {k \in 1..n : \A l \in 1..k : q[l] \notin failing}}

\* The per-category step for the case directories of one category
PruneCategory(list, keep, f, t) ==
    IF keep < 0 \/ Cardinality(list) <= keep
    THEN {[deleted |-> {}, left |-> list, raised |-> FALSE]}
    ELSE IF f.at = "checked" /\ f.entry \in list
    THEN {[deleted |-> {}, left |-> list, raised |-> TRUE]}
    ELSE LET n == Cardinality(list) - WatermarkTarget(keep)
         IN  {[deleted |-> DeletedAll(q, n, Vanished(f, BeforeDelete)
                                            \cup Stuck(f)),
               left |-> {q[m] : m \in (n + 1)..Cardinality(list)},
               raised |-> FALSE] :
                 q \in SortOldestFirst(list, Vanished(f, BeforeSort), t)}

\* The per-category step for the rewrite files: the sort calls p.stat() on
\* every listed file
PruneFiles(files, keep, f, t) ==
    IF keep < 0 \/ Cardinality(files) <= keep
    THEN {[deleted |-> {}, left |-> files, raised |-> FALSE]}
    ELSE IF f.at = "listed" /\ f.entry \in files
    THEN {[deleted |-> {}, left |-> files, raised |-> TRUE]}
    ELSE LET n == Cardinality(files) - WatermarkTarget(keep)
         IN  {[deleted |-> DeletedAll(q, n, Vanished(f, BeforeDelete)
                                            \cup Stuck(f)),
               left |-> {q[m] : m \in (n + 1)..Cardinality(files)},
               raised |-> FALSE] :
                 q \in SortOldestFirst(files, {}, t)}

\* Step 1: success, error, fate, rewrite files, in this order
PerCategory(found, c, f, t) ==
    {[success |-> s, error |-> e, fate |-> g, rewrite |-> r] :
        s \in PruneCategory(EntriesIn(found, "success"),
                            c.keep_success_cases, f, t),
        e \in PruneCategory(EntriesIn(found, "error"),
                            c.keep_error_cases, f, t),
        g \in PruneCategory(EntriesIn(found, "fate"),
                            c.keep_fate_cases, f, t),
        r \in PruneFiles(EntriesIn(found, RewriteFile),
                         c.keep_rewritten_cases, f, t)}

PerCategoryRaised(p) ==
    p.success.raised \/ p.error.raised \/ p.fate.raised \/ p.rewrite.raised

\* What step 1 deleted: an exception ends the call where it is raised
PerCategoryDeleted(p) ==
    p.success.deleted \cup
    (IF p.success.raised THEN {} ELSE p.error.deleted \cup
    (IF p.error.raised THEN {} ELSE p.fate.deleted \cup
    (IF p.fate.raised THEN {} ELSE p.rewrite.deleted)))

\* A prunable list that takes in the fate directories
PrunableDirs_WithFate(p) == p.success.left \cup p.error.left \cup p.fate.left

\* success_dirs + error_dirs, the lists step 1 left
PrunableDirs(p) == p.success.left \cup p.error.left

\* Step 2, the count cap over the sorted list of success and error entries:
\* the entries deleted
PruneMaxCases(q, max_cases, f) ==
    IF max_cases = {} THEN {}
    ELSE LET limit == CHOOSE m \in max_cases : TRUE
             len == Cardinality(DOMAIN q)
             target == IF len > limit THEN WatermarkTarget(limit) ELSE limit
             n == IF len > target THEN len - target ELSE 0
         IN  DeletedUntilFailure(q, n, Vanished(f, BeforeCapsDelete)
                                       \cup Stuck(f))

\* How many entries the loop of the size cap pops when every deletion
\* succeeds
RECURSIVE PoppedWhileOver(_, _, _, _)
PoppedWhileOver(len, n, size, target_bytes) ==
    IF n >= len \/ size <= target_bytes THEN n
    ELSE PoppedWhileOver(len, n + 1, size - CaseBytes, target_bytes)

\* Step 2, the size cap over the success and error directories on disk:
\* the entries deleted
PruneMaxBytes(on_disk, max_results_bytes, f, t) ==
    LET limit == CHOOSE m \in max_results_bytes : TRUE
        prunable_size == Cardinality(on_disk) * CaseBytes
        target_bytes == IF prunable_size > limit
                        THEN WatermarkTarget(limit) ELSE limit
        n == PoppedWhileOver(Cardinality(on_disk), 0,
                             prunable_size, target_bytes)
    IN  {DeletedUntilFailure(q, n, Vanished(f, BeforeSizeDelete)
                                   \cup Stuck(f)) :
            q \in SortOldestFirst(on_disk, {}, t)}

\* Step 2: <<deleted by the count cap, deleted by the size cap, raised>>
GlobalCaps(found, c, f, t, p) ==
    IF f.at = "checked_caps" /\ f.entry \in PrunableDirs(p)
    THEN {<<{}, {}, TRUE>>}
    ELSE UNION {
        LET by_count == PruneMaxCases(q, c.max_cases, f)
            on_disk == (EntriesIn(found, "success")
                        \cup EntriesIn(found, "error"))
                       \ (PerCategoryDeleted(p) \cup by_count
                          \cup Vanished(f, BeforeCapsDelete))
        IN  IF c.max_results_bytes = {} THEN {<<by_count, {}, FALSE>>}
            ELSE IF f.at = "checked_size" /\ f.entry \in on_disk
            THEN {<<by_count, {}, TRUE>>}
            ELSE {<<by_count, by_size, FALSE>> :
                    by_size \in PruneMaxBytes(on_disk, c.max_results_bytes,
                                              f, t)} :
        q \in SortOldestFirst(PrunableDirs(p), Vanished(f, BeforeCapsSort), t)}

Outcome(found, f, by_category, caps, result) ==
    [found |-> found, fault |-> f, by_category |-> by_category,
     by_count_cap |-> caps[1], by_size_cap |-> caps[2], result |-> result]

\* enforce_results_limits: the outcomes of one call that finds the entries
\* found, with fault f, the disk below min_free_gb or not, at time t
EnforceResultsLimits(found, c, f, low_disk, t) ==
    UNION {
        IF PerCategoryRaised(p)
        THEN {Outcome(found, f, PerCategoryDeleted(p), <<{}, {}>>, "raised")}
        ELSE {Outcome(found, f, PerCategoryDeleted(p), caps,
                      IF caps[3] THEN "raised"
                      ELSE Bool(DiskFreeGuard(c, low_disk))) :
                 caps \in GlobalCaps(found, c, f, t, p)} :
        p \in PerCategory(found, c, f, t)}

\* What one call removed itself
Deleted(o) == o.by_category \cup o.by_count_cap \cup o.by_size_cap

\* The entry another worker removed during the call
DeletedElsewhere(f) == IF f.at \in {"never", "stuck"} THEN {} ELSE {f.entry}

RetentionBaseConfig ==
    [keep_success_cases |-> 2, keep_error_cases |-> 1, keep_fate_cases |-> 2,
     keep_rewritten_cases |-> 1, max_cases |-> {}, max_results_bytes |-> {},
     min_free_gb_set |-> FALSE]

RetentionConfigs ==
    {RetentionBaseConfig,
     [RetentionBaseConfig EXCEPT !.keep_success_cases = -1,
                                 !.keep_error_cases = -1,
                                 !.keep_fate_cases = -1,
                                 !.keep_rewritten_cases = -1,
                                 !.max_cases = {2},
                                 !.min_free_gb_set = TRUE],
     [RetentionBaseConfig EXCEPT !.keep_success_cases = 3,
                                 !.keep_error_cases = 3,
                                 !.keep_fate_cases = 1,
                                 !.keep_rewritten_cases = 0,
                                 !.max_results_bytes = {1}]}

InitRetention ==
    /\ cfg \in RetentionConfigs
    /\ results_dir = {}
    /\ enforced = Idle
    /\ clock = [now |-> 0, serial |-> 0]
    /\ selector = Idle /\ disk = {} /\ ret = Idle /\ nsel = 0
    /\ baseline = Idle /\ judged = Idle /\ w = Idle /\ obs = Idle

\* A worker writes a case directory, or the rewrite stage a rewrite file
WriteCase ==
    /\ clock.serial < MaxEntries
    /\ \E status \in Categories \cup {RewriteFile}, tick \in {0, 1} :
          /\ clock' = [now |-> clock.now + tick, serial |-> clock.serial + 1]
          /\ results_dir' = results_dir \cup
                {[status |-> status, name |-> clock.serial + 1,
                  mtime |-> clock.now + tick]}
    /\ enforced' = Idle
    /\ UNCHANGED <<cfg, selector, disk, ret, nsel, baseline, judged, w, obs>>

CallEnforceResultsLimits ==
    /\ \E f \in Faults(results_dir),
          low_disk \in LowDisk(cfg) :
          \E o \in EnforceResultsLimits(results_dir, cfg, f, low_disk,
                                        clock.now) :
             /\ enforced' = o
             /\ results_dir' = results_dir \ (Deleted(o) \cup DeletedElsewhere(f))
    /\ UNCHANGED <<clock, cfg, selector, disk, ret, nsel, baseline, judged, w,
                   obs>>

NextRetention == WriteCase \/ CallEnforceResultsLimits

SpecRetention == InitRetention /\ [][NextRetention]_vars

Enforced == enforced # Idle

FaultFree == Enforced /\ enforced.fault = NoFault /\ enforced.result # "raised"

PrunableCategories == {"success", "error", "fate"}

Findings == {"crash", "hang", "miscompilation"}

KeepLimit(c, status) ==
    CASE status = "success" -> c.keep_success_cases
      [] status = "error" -> c.keep_error_cases
      [] status = "fate" -> c.keep_fate_cases

\* min(K, floor(0.9 * K))
KeptOf(K) == IF (9 * K) \div 10 < K THEN (9 * K) \div 10 ELSE K

MostRecent(kept, removed) ==
    \A k \in kept, r \in removed : k.mtime >= r.mtime

C10_FindingsAreNeverPruned ==
    Enforced =>
        /\ \A d \in Deleted(enforced) \cup (enforced.found \ results_dir) :
              d.status \notin Findings
        /\ \A d \in enforced.by_count_cap \cup enforced.by_size_cap :
              d.status \in {"success", "error"}
        /\ \A d \in EntriesIn(Deleted(enforced), "fate") :
              /\ d \in enforced.by_category
              /\ cfg.keep_fate_cases >= 0
              /\ Cardinality(EntriesIn(enforced.found, "fate"))
                     > cfg.keep_fate_cases

\* A global cap deleted a success or error directory newer than a crash,
\* hang, miscompilation or fate directory that is still there
C10_Witness ==
    /\ Enforced
    /\ \E d \in enforced.by_count_cap \cup enforced.by_size_cap :
          \E k \in results_dir :
             /\ k.status \in Findings \cup {"fate"}
             /\ k.mtime < d.mtime

\* The success and error case directories among entries
Prunable(entries) == EntriesIn(entries, "success") \cup EntriesIn(entries, "error")

\* The call returned and every deletion it tried either succeeded or found
\* the directory already deleted by another worker
ReturnedUnstuck ==
    Enforced /\ enforced.result # "raised" /\ enforced.fault.at # "stuck"

\* C11: with max_cases = M, after a call that returned, success and error
\* hold together at most M case directories, and at most floor(0.9*M) when
\* the call found more than M, also when a directory the call listed was
\* deleted by another worker in the meantime.
C11_CountCapHolds ==
    (ReturnedUnstuck /\ cfg.max_cases # {}) =>
        \A M \in cfg.max_cases :
            /\ Cardinality(Prunable(results_dir)) <= M
            /\ Cardinality(Prunable(enforced.found)) > M
                  => Cardinality(Prunable(results_dir)) <= KeptOf(M)

\* C12: a retention check of the worker returns False exactly when
\* min_free_gb is configured and the free space is below it when the guard,
\* the last step of the call, measures it; after a False return the worker
\* has returned, and a worker that has returned takes no further step: no
\* select, no mutation, no compilation, no case record.
C12_FalseReturnStopsWorker ==
    [][/\ w.pc # "done"
       /\ obs'.limits # NoCheck =>
             /\ ~obs'.limits.returned
                   <=> (cfg.min_free_gb_set /\ obs'.limits.low_disk)
             /\ ~obs'.limits.returned => w'.pc = "done"]_vars

\* The check before the second case record of a seed returned False and the
\* worker has returned with one record written
C12_Witness ==
    /\ w.pc = "done"
    /\ obs.limits # NoCheck
    /\ ~obs.limits.returned
    /\ Len(obs.written) = 1
    /\ judged # NoJudgement

(***************************************************************************)
(* Promotion of SUCCESS mutants (worker_main, seeds/<prefix>N)               *)
(***************************************************************************)

\* How many mutants of one run reach the promotion step
MaxPromotionAttempts == 3

\* How many seeds one run selects
MaxParents == 2

\* The base seeds of the runs explored
BaseSeeds == {"a", "b", "e"}

\* The numbers N of the directories seeds/<prefix>N among the paths
DirNumbers(paths) == {n \in 1..Len(PromotedDirs) : PromotedDirs[n] \in paths}

\* pick_next_new_seed_dir: the number after the highest one in use
PickNextNewSeedDir(paths) ==
    IF DirNumbers(paths) = {} THEN 1
    ELSE (CHOOSE n \in DirNumbers(paths) :
              \A m \in DirNumbers(paths) : m <= n) + 1

\* current_dir.glob('*.rs')
FilesIn(paths, n) ==
    {f \in paths : \E k \in 1..Len(PromotedFiles[n]) : f = PromotedFiles[n][k]}

\* A worker that never leaves its directory
MaybeRollPromotedDir_Never(current_dir, paths, max_files, fails) == current_dir

\* maybe_roll_promoted_dir; fails: the listing or the creation of the next
\* directory raises
MaybeRollPromotedDir(current_dir, paths, max_files, fails) ==
    IF max_files <= 0 THEN current_dir
    ELSE IF fails THEN current_dir
    ELSE IF Cardinality(FilesIn(paths, current_dir)) >= max_files
         THEN PickNextNewSeedDir(paths)
         ELSE current_dir

\* A counter that is never found above zero
PromotedSoFar_Forgotten(wk) == 0

\* promotions_by_seed.get(parent_key, 0)
PromotedSoFar(wk) == wk.promotions_by_seed[wk.parent_key]

\* What out_path.write_text can do: write the file, raise before the file
\* exists, raise after it was created
Writes == {"written", "failed", "partial"}

\* The promotion step for a SUCCESS constraint_injection mutant, the k-th
\* mutant to reach it: [w, selector, disk, out, reached], out the file
\* registered as promoted, reached telling whether the step got as far as
\* choosing the directory
Promote(wk, sel, paths, c, k, internal, wrote, fails) ==
    LET nothing == [w |-> wk, selector |-> sel, disk |-> paths,
                    out |-> NoSeed, reached |-> FALSE]
    IN  IF wk.promoted_dir = 0 \/ ~c.promote_success THEN nothing
        ELSE IF c.max_promotions_per_seed <= 0 THEN nothing
        ELSE IF PromotedSoFar(wk) >= c.max_promotions_per_seed THEN nothing
        ELSE LET dir == MaybeRollPromotedDir(wk.promoted_dir, paths,
                                             c.new_seeds_max, fails)
                 out_path == PromotedFiles[dir][k]
                 rolled == paths \cup {PromotedDirs[dir]}
                 w1 == [wk EXCEPT !.promoted_dir = dir]
             IN  IF wrote = "written"
                 THEN [w |-> [w1 EXCEPT !.promotions_by_seed[wk.parent_key] =
                                            PromotedSoFar(wk) + 1],
                       selector |-> AddSeed(sel, out_path, wk.ancestor_family,
                                            TRUE, internal),
                       disk |-> rolled \cup {out_path},
                       out |-> out_path, reached |-> TRUE]
                 ELSE [w |-> w1, selector |-> sel,
                       disk |-> IF wrote = "partial"
                                THEN rolled \cup {out_path} ELSE rolled,
                       out |-> NoSeed, reached |-> TRUE]

\* The locals of worker_main that promotion reads and writes, before the
\* fuzzing loop; promoted_dir 0 is None
PromotionLocals ==
    [pc |-> "start",
     seed_path |-> NoSeed,
     parent_key |-> NoSeed,
     ancestor_family |-> NoFam,
     promoted_dir |-> 0,
     promotions_by_seed |-> [s \in Paths |-> 0],
     attempts |-> 0]

NoPromotion == [none |-> TRUE]

\* promoted: the <<parent, file>> of the promotions made; last: the mutant
\* that has just reached the promotion step
NothingPromoted == [promoted |-> {}, last |-> NoPromotion]

\* --[no-]promote-success, fuzzer.max_promotions_per_seed, --new-seeds-max
PromotionConfigs ==
    {[promote_success |-> TRUE, max_promotions_per_seed |-> 2,
      new_seeds_max |-> 1],
     [promote_success |-> TRUE, max_promotions_per_seed |-> 1,
      new_seeds_max |-> 2],
     [promote_success |-> TRUE, max_promotions_per_seed |-> 3,
      new_seeds_max |-> 0],
     [promote_success |-> TRUE, max_promotions_per_seed |-> 0,
      new_seeds_max |-> 1],
     [promote_success |-> FALSE, max_promotions_per_seed |-> 2,
      new_seeds_max |-> 1]}

InitPromotion ==
    /\ cfg \in PromotionConfigs
    /\ disk \in {BaseSeeds, BaseSeeds \cup {PromotedDirs[1]}}
    /\ selector = SelectorInit(BaseSeeds, 0, 0, NoLimit, 1)
    /\ w = PromotionLocals
    /\ obs = NothingPromoted
    /\ ret = NoSeed /\ nsel = 0
    /\ baseline = NoBaseline /\ judged = NoJudgement
    /\ results_dir = {} /\ enforced = Idle /\ clock = Idle

promotionIdle == <<cfg, ret, baseline, judged, results_dir, enforced, clock>>

\* worker_main before the loop: with --promote-success the worker takes a
\* new promoted directory
PickPromotedDir ==
    /\ w.pc = "start"
    /\ cfg.promote_success => PickNextNewSeedDir(disk) <= Len(PromotedDirs)
    /\ IF cfg.promote_success
       THEN /\ w' = [w EXCEPT !.pc = "select",
                              !.promoted_dir = PickNextNewSeedDir(disk)]
            /\ disk' = disk \cup {PromotedDirs[PickNextNewSeedDir(disk)]}
       ELSE /\ w' = [w EXCEPT !.pc = "select"]
            /\ disk' = disk
    /\ UNCHANGED <<selector, obs, nsel, promotionIdle>>

\* One turn of the fuzzing loop selects a seed: parent_key and
\* ancestor_family are taken from it
PromotionSelect ==
    /\ w.pc = "select"
    /\ nsel < MaxParents
    /\ \E want_promoted \in BOOLEAN :
       \E o \in Select(selector, "random", want_promoted, disk) :
          /\ o[1] # NoSeed
          /\ selector' = o[2]
          /\ w' = [w EXCEPT !.pc = "fuzz",
                            !.seed_path = o[1],
                            !.parent_key = o[1],
                            !.ancestor_family = FamilyKey(o[2], o[1])]
    /\ nsel' = nsel + 1
    /\ obs' = [obs EXCEPT !.last = NoPromotion]
    /\ UNCHANGED <<disk, promotionIdle>>

\* A SUCCESS constraint_injection mutant of the selected seed reaches the
\* promotion step
PromoteMutant ==
    /\ w.pc = "fuzz"
    /\ w.attempts < MaxPromotionAttempts
    /\ \E internal \in BOOLEAN, wrote \in Writes, fails \in BOOLEAN :
          LET k == w.attempts + 1
              o == Promote([w EXCEPT !.attempts = k], selector, disk, cfg, k,
                           internal, wrote, fails)
          IN  /\ IF w.promoted_dir = 0 THEN TRUE
                 ELSE MaybeRollPromotedDir(w.promoted_dir, disk,
                                           cfg.new_seeds_max, fails)
                         <= Len(PromotedDirs)
              /\ w' = o.w
              /\ selector' = o.selector
              /\ disk' = o.disk
              /\ obs' = [promoted |->
                             IF o.out = NoSeed THEN obs.promoted
                             ELSE obs.promoted \cup {<<w.parent_key, o.out>>},
                         last |->
                             IF ~o.reached THEN NoPromotion
                             ELSE [parent |-> w.parent_key,
                                   family |-> w.ancestor_family,
                                   dir_before |-> w.promoted_dir,
                                   held_before |->
                                       Cardinality(FilesIn(disk, w.promoted_dir)),
                                   highest_before |->
                                       PickNextNewSeedDir(disk) - 1,
                                   out |-> o.out,
                                   internal |-> internal,
                                   fails |-> fails]]
    /\ UNCHANGED <<nsel, promotionIdle>>

\* A CRASH/HANG mutant of the selected seed: its family is banned
PromotionBanFamily ==
    /\ w.pc = "fuzz"
    /\ selector' = BanFamily(selector, w.ancestor_family)
    /\ w' = [w EXCEPT !.pc = "select"]
    /\ obs' = [obs EXCEPT !.last = NoPromotion]
    /\ UNCHANGED <<disk, nsel, promotionIdle>>

\* The turn of the fuzzing loop ends
PromotionEndIteration ==
    /\ w.pc = "fuzz"
    /\ w' = [w EXCEPT !.pc = "select"]
    /\ obs' = [obs EXCEPT !.last = NoPromotion]
    /\ UNCHANGED <<selector, disk, nsel, promotionIdle>>

\* Another worker takes a promoted directory, at its start or when its
\* current one is full
OtherWorkerPicksDir ==
    /\ PickNextNewSeedDir(disk) <= Len(PromotedDirs)
    /\ disk' = disk \cup {PromotedDirs[PickNextNewSeedDir(disk)]}
    /\ UNCHANGED <<selector, w, obs, nsel, promotionIdle>>

NextPromotion ==
    \/ PickPromotedDir
    \/ PromotionSelect
    \/ PromoteMutant
    \/ PromotionBanFamily
    \/ PromotionEndIteration
    \/ OtherWorkerPicksDir

SpecPromotion == InitPromotion /\ [][NextPromotion]_vars

\* The files promoted from a parent seed so far in the run
PromotedFrom(o, parent) == {f \in PromotedPaths : <<parent, f>> \in o.promoted}

AtPromotion == obs.last # NoPromotion

\* The promoted file, if one was written, lies in the directory numbered n
ReceivedBy(n) ==
    obs.last.out # NoSeed => obs.last.out \in FilesIn(disk, n)

C15_PromotedSeedJoinsPoolInFamily ==
    (AtPromotion /\ obs.last.out # NoSeed) =>
        /\ obs.last.out \in selector.seeds
        /\ obs.last.out \in selector.promoted_seeds
        /\ FamilyKey(selector, obs.last.out) = obs.last.family
        /\ obs.last.out \notin
               EligibleSeeds(BanFamily(selector, obs.last.family))

(***************************************************************************)
(* The selector over three base seeds, two of them of one family, with      *)
(* both recency windows on                                                  *)
(***************************************************************************)

\* <<seed_repeat_window, seed_family_repeat_window, seed_max_picks_per_seed,
\* seed_pick_retry_limit>>
RecencyKnobs == {<<1, 1, NoLimit, 1>>, <<2, 1, NoLimit, 2>>, <<2, 2, 2, 1>>}

InitRecency ==
    /\ \E k \in RecencyKnobs :
          selector = SelectorInit({"a", "b", "c"}, k[1], k[2], k[3], k[4])
    /\ disk = {"a", "b", "c"}
    /\ ret = NoSeed
    /\ nsel = 0
    /\ cfg = NoCfg
    /\ baseline = NoBaseline
    /\ judged = NoJudgement
    /\ w = NothingReturned /\ obs = Idle
    /\ results_dir = {} /\ enforced = Idle /\ clock = Idle

NextRecency ==
    \/ CallSelect
    \/ CallBanFamily
    \/ FileDeleted

SpecRecency == InitRecency /\ [][NextRecency]_vars

\* The pool the returned seed s was drawn from: the eligible promoted seeds
\* or the eligible base seeds
PoolOf(sel, s) ==
    IF s \in sel.promoted_seeds
    THEN EligibleSeeds(sel) \cap sel.promoted_seeds
    ELSE EligibleSeeds(sel) \ sel.promoted_seeds

\* C16: a select call that starts with at least one eligible seed and with
\* the files of the eligible seeds on disk returns a seed, whatever the
\* recency windows hold; and it returns a seed that is inside the seed-level
\* window only if every eligible seed of the pool it was drawn from is
\* inside that window.
C16_WindowsNeverBlockSelection ==
    obs # Idle =>
        LET eligible == EligibleSeeds(obs.before)
            recent == Range(obs.before.recent)
        IN  /\ (eligible # {} /\ eligible \subseteq obs.files)
                  => ret # NoSeed
            /\ (ret # NoSeed /\ obs.before.repeat_window > 0 /\ ret \in recent)
                  => PoolOf(obs.before, ret) \subseteq recent

\* A select call returned a seed although each of the two or more eligible
\* seeds was inside the seed-level window and each of their families inside
\* the family-level window
C16_Witness ==
    /\ obs # Idle
    /\ ret # NoSeed
    /\ obs.before.repeat_window > 0
    /\ obs.before.family_repeat_window > 0
    /\ Cardinality(EligibleSeeds(obs.before)) >= 2
    /\ EligibleSeeds(obs.before) \subseteq Range(obs.before.recent)
    /\ \A s \in EligibleSeeds(obs.before) :
          FamilyKey(obs.before, s) \in Range(obs.before.family_recent)

\* The seeds a select call picked and found missing on disk
MissingPicks == Range(obs.picks) \ obs.files

C17_WitnessExhausted ==
    /\ obs # Idle
    /\ ret = NoSeed
    /\ Len(obs.picks) = 2
    /\ obs.before.pick_retry_limit = 2

(***************************************************************************)
(* The supervisor (main) and its worker processes                           *)
(***************************************************************************)

MaxWorkers == 3

\* Every seed file that can exist under the seeds directory, in the order
\* all_seeds.sort() gives them: base seeds a, b, x, y and the file new1/v1 a
\* worker that promotes writes under seeds/<prefix>1
SortedListing == <<"a", "b", "new1/v1", "x", "y">>
BaseListing == {"a", "b", "x", "y"}

\* SeedSelector.__init__: the sorted listing without the files that are
\* empty or internal-only
ValidSeeds(files, c) ==
    LET Valid(p) == p \in files /\ p \notin c.empty /\ p \notin c.internal
    IN  SelectSeq(SortedListing, Valid)

\* SeedSelector.__init__: the seeds at the positions i (counted from 0) with
\* i % num_shards == shard_index, num_shards being max(1, num_shards)
Shard(valid_seeds, shard_index, num_shards) ==
    LET n == IF num_shards < 1 THEN 1 ELSE num_shards
    IN  {valid_seeds[k] : k \in {j \in 1..Len(valid_seeds) :
                                    (j - 1) % n = shard_index}}

\* fuzzer.workers, --promote-success, and which seed files are empty or
\* internal-only
OrchestratorConfigs ==
    [workers : 1..MaxWorkers,
     promote_success : BOOLEAN,
     empty : {{}, {"b"}},
     internal : {{}, {"x"}}]

WorkerIndexes == 0..(MaxWorkers - 1)

\* p.is_alive()
Alive(procs) == {i \in WorkerIndexes : procs[i] \in {"started", "running"}}

InitOrchestrator ==
    /\ cfg \in OrchestratorConfigs
    /\ disk \in SUBSET BaseListing
    /\ w = [pc |-> "start", spawned |-> 0,
            proc |-> [i \in WorkerIndexes |-> "none"],
            built |-> {},
            seeds |-> [i \in WorkerIndexes |-> {}]]
    /\ obs = [initial |-> disk, signalled |-> FALSE]
    /\ selector = Idle /\ ret = NoSeed /\ nsel = 0
    /\ baseline = NoBaseline /\ judged = NoJudgement
    /\ results_dir = {} /\ enforced = Idle /\ clock = Idle

orchestratorIdle ==
    <<cfg, selector, ret, nsel, baseline, judged, results_dir, enforced, clock>>

\* main with num_workers <= 1: worker_main(0, 1) runs in the supervisor
RunSingleWorker ==
    /\ w.pc = "start"
    /\ cfg.workers <= 1
    /\ w' = [w EXCEPT !.pc = "inline", !.proc[0] = "started"]
    /\ UNCHANGED <<disk, obs, orchestratorIdle>>

\* main: one turn of the spawn loop, p.start()
SpawnWorker ==
    /\ w.pc \in {"start", "spawning"}
    /\ cfg.workers > 1
    /\ w.spawned < cfg.workers
    /\ w' = [w EXCEPT !.pc = "spawning", !.spawned = @ + 1,
                      !.proc[w.spawned] = "started"]
    /\ UNCHANGED <<disk, obs, orchestratorIdle>>

\* main: after the spawn loop, signal.signal for SIGINT and SIGTERM; then
\* the supervisor joins the workers
InstallHandlers ==
    /\ w.pc = "spawning"
    /\ w.spawned = cfg.workers
    /\ w' = [w EXCEPT !.pc = "joining"]
    /\ UNCHANGED <<disk, obs, orchestratorIdle>>

\* signal_handler: p.terminate() for every p with p.is_alive()
SignalHandler(procs) ==
    [i \in WorkerIndexes |-> IF i \in Alive(procs) THEN "terminated"
                             ELSE procs[i]]

\* The supervisor receives SIGINT or SIGTERM.  With the handlers installed
\* signal_handler runs and exits.  Before that SIGTERM ends the supervisor
\* at once and SIGINT raises KeyboardInterrupt in the spawn loop, which
\* nothing catches: the interpreter unwinds and waits for its children at
\* exit; a further signal ends that wait.  A single worker runs inside the
\* supervisor and ends with it.
Signal ==
    /\ w.pc \in {"spawning", "joining", "inline", "unwinding"}
    /\ \E sig \in {"SIGINT", "SIGTERM"} :
          w' = IF w.pc \in {"joining", "inline"}
               THEN [w EXCEPT !.pc = "exited", !.proc = SignalHandler(w.proc)]
               ELSE IF w.pc = "spawning" /\ sig = "SIGINT"
               THEN [w EXCEPT !.pc = "unwinding"]
               ELSE [w EXCEPT !.pc = "exited"]
    /\ obs' = [obs EXCEPT !.signalled = TRUE]
    /\ UNCHANGED <<disk, orchestratorIdle>>

\* main: every p.join() has returned (or, after an uncaught
\* KeyboardInterrupt, the wait at exit); a single worker has returned
JoinWorkers ==
    /\ w.pc \in {"joining", "unwinding", "inline"}
    /\ Alive(w.proc) = {}
    /\ w' = [w EXCEPT !.pc = "exited"]
    /\ UNCHANGED <<disk, obs, orchestratorIdle>>

\* worker_main: SeedSelector(seeds_dir, shard_index=worker_index,
\* num_shards=total_workers) lists the seeds directory as it is now; without
\* seeds the worker returns
WorkerBuildsSelector ==
    /\ \E i \in WorkerIndexes :
          /\ w.proc[i] = "started"
          /\ LET seeds == Shard(ValidSeeds(disk, cfg), i, cfg.workers)
             IN  w' = [w EXCEPT !.seeds[i] = seeds,
                                !.built = @ \cup {i},
                                !.proc[i] = IF seeds = {} THEN "finished"
                                            ELSE "running"]
    /\ UNCHANGED <<disk, obs, orchestratorIdle>>

\* worker_main: a running worker promotes a mutant into seeds/<prefix>1
WorkerPromotes ==
    /\ cfg.promote_success
    /\ \E i \in WorkerIndexes : w.proc[i] = "running"
    /\ "new1/v1" \notin disk
    /\ disk' = disk \cup {"new1/v1"}
    /\ UNCHANGED <<w, obs, orchestratorIdle>>

\* worker_main returns or the worker process dies
WorkerFinishes ==
    /\ \E i \in WorkerIndexes :
          /\ w.proc[i] = "running"
          /\ w' = [w EXCEPT !.proc[i] = "finished"]
    /\ UNCHANGED <<disk, obs, orchestratorIdle>>

NextOrchestrator ==
    \/ RunSingleWorker
    \/ SpawnWorker
    \/ InstallHandlers
    \/ Signal
    \/ JoinWorkers
    \/ WorkerBuildsSelector
    \/ WorkerPromotes
    \/ WorkerFinishes

SpecOrchestrator == InitOrchestrator /\ [][NextOrchestrator]_vars

\* The workers that have built their selector
Built == w.built

\* C18: the initial seed sets of the workers are pairwise disjoint, and once
\* all N workers have built their selector every valid seed (non-empty, not
\* internal-only) of the seeds directory is in the set of the worker
\* i mod N, i its position in the sorted list of valid seeds, and of no
\* other worker.
C18_ShardsPartitionValidSeeds ==
    /\ \A i \in Built : \A j \in Built \ {i} : w.seeds[i] \cap w.seeds[j] = {}
    /\ Built = 0..(cfg.workers - 1) =>
          LET valid == ValidSeeds(obs.initial, cfg)
          IN  \A k \in 1..Len(valid) : \A i \in Built :
                 valid[k] \in w.seeds[i] <=> i = (k - 1) % cfg.workers

\* C19: when the supervisor has exited after it received SIGINT or SIGTERM
\* at some time after it started spawning workers, no worker process is
\* alive: each one had ended or was terminated.
C19_SignalTerminatesWorkers ==
    (w.pc = "exited" /\ obs.signalled) => Alive(w.proc) = {}

\* C20: a call during which another worker deleted an entry the call had
\* listed (a case directory or a rewrite file, at any moment before the call
\* sorts or deletes it) returns without raising, and has pruned the other
\* victims down to its targets: a category found above its keep-limit K
\* holds at most min(K, floor(0.9*K)) directories, and success and error
\* found above max_cases = M hold together at most floor(0.9*M).
C20_VanishedEntryIsBenign ==
    (Enforced /\ DeletedElsewhere(enforced.fault) # {}) =>
        /\ enforced.result # "raised"
        /\ \A status \in PrunableCategories :
              LET K == KeepLimit(cfg, status)
              IN  (K >= 0 /\ Cardinality(EntriesIn(enforced.found, status)) > K)
                     => Cardinality(EntriesIn(results_dir, status)) <= KeptOf(K)
        /\ \A M \in cfg.max_cases :
              Cardinality(Prunable(enforced.found)) > M
                 => Cardinality(Prunable(results_dir)) <= KeptOf(M)

(***************************************************************************)
(* The subprocesses a worker waits on while it makes and compiles mutants   *)
(***************************************************************************)

\* The longest an external tool that returns takes
MaxRunTime == 3

\* The mutants made in one run
MaxVariants == 2

\* subprocess.run without timeout=
NoTimeout == -1

\* The running time of a tool that never returns: beyond any time waited
Never == MaxRunTime + 2

\* The timeout= argument of the subprocess.run call that starts the tool:
\* RustCompiler.compile passes self.timeout (max_time_per_case_sec), the call
\* of the mutation tool passes none
TimeoutOf(tool, c) ==
    IF tool = "mutation_tool" THEN NoTimeout ELSE c.max_time_per_case_sec

\* fuzzer.max_time_per_case_sec and compiler.enable_nightly_compile
SubprocessConfigs ==
    [max_time_per_case_sec : 1..2, enable_nightly_compile : BOOLEAN]

\* The tool a worker starts next after one has returned
ToolAfter(tool, c) ==
    CASE tool = "mutation_tool" -> "stable"
      [] tool = "stable" /\ c.enable_nightly_compile -> "nightly"
      [] OTHER -> "mutation_tool"

InitSubprocess ==
    /\ cfg \in SubprocessConfigs
    /\ w = [next |-> "mutation_tool", waiting |-> FALSE, variants |-> 0,
            timeout |-> NoTimeout, runs_for |-> 0, elapsed |-> 0,
            status |-> "none"]
    /\ obs = Idle
    /\ selector = Idle /\ disk = {} /\ ret = NoSeed /\ nsel = 0
    /\ baseline = NoBaseline /\ judged = NoJudgement
    /\ results_dir = {} /\ enforced = Idle /\ clock = Idle

\* subprocess.run(cmd, ...) starts the next tool and waits for it; the tool
\* returns after runs_for units of time or never
SubprocessRun ==
    /\ ~w.waiting
    /\ w.variants < MaxVariants
    /\ \E runs_for \in (0..MaxRunTime) \cup {Never} :
          w' = [w EXCEPT !.waiting = TRUE,
                         !.timeout = TimeoutOf(w.next, cfg),
                         !.runs_for = runs_for,
                         !.elapsed = 0,
                         !.status = "none"]
    /\ UNCHANGED <<cfg, obs, selector, disk, ret, nsel, baseline, judged,
                   results_dir, enforced, clock>>

\* Time passes while the worker waits
Tick ==
    /\ w.waiting
    /\ w.elapsed <= MaxRunTime
    /\ w.runs_for = Never \/ w.elapsed < w.runs_for
    /\ w.timeout = NoTimeout \/ w.elapsed < w.timeout
    /\ w' = [w EXCEPT !.elapsed = @ + 1]
    /\ UNCHANGED <<cfg, obs, selector, disk, ret, nsel, baseline, judged,
                   results_dir, enforced, clock>>

\* The tool returns and subprocess.run with it
ProcessExits ==
    /\ w.waiting
    /\ w.runs_for # Never
    /\ w.elapsed >= w.runs_for
    /\ w' = [w EXCEPT !.waiting = FALSE,
                      !.status = "returned",
                      !.next = ToolAfter(w.next, cfg),
                      !.variants = IF ToolAfter(w.next, cfg) = "mutation_tool"
                                   THEN @ + 1 ELSE @]
    /\ UNCHANGED <<cfg, obs, selector, disk, ret, nsel, baseline, judged,
                   results_dir, enforced, clock>>

\* subprocess.TimeoutExpired: RustCompiler.compile returns HANG
TimeoutExpired ==
    /\ w.waiting
    /\ w.timeout # NoTimeout
    /\ w.elapsed >= w.timeout
    /\ w' = [w EXCEPT !.waiting = FALSE,
                      !.status = "HANG",
                      !.next = ToolAfter(w.next, cfg),
                      !.variants = IF ToolAfter(w.next, cfg) = "mutation_tool"
                                   THEN @ + 1 ELSE @]
    /\ UNCHANGED <<cfg, obs, selector, disk, ret, nsel, baseline, judged,
                   results_dir, enforced, clock>>

NextSubprocess ==
    \/ SubprocessRun
    \/ Tick
    \/ ProcessExits
    \/ TimeoutExpired

\* Time passes, a tool that has run its time returns, and a timeout that has
\* expired is noticed
SpecSubprocess ==
    /\ InitSubprocess
    /\ [][NextSubprocess]_vars
    /\ WF_vars(Tick) /\ WF_vars(ProcessExits) /\ WF_vars(TimeoutExpired)

\* C21: every wait of the worker for a subprocess, the mutation tool or a
\* compiler, comes to an end, also when the tool never returns.
C21_EveryWaitEnds == w.waiting ~> ~w.waiting

(***************************************************************************)
(* The directory lock around the LLM rewrite (SimpleFileLock)               *)
(***************************************************************************)

\* The workers that ask for a rewrite and the rewrites each one asks for
MaxLockWorkers == 2
MaxRewrites == 2
LockWorkers == 1..MaxLockWorkers

\* llm.lock_path
LockDir == "llm_global_lock.dir"

\* The timeout of the lock in sleeps of the retry loop, and whether mkdir
\* keeps failing with an error other than FileExistsError (e.g.
\* PermissionError on the parent directory)
LockConfigs == [timeout : 1..2, mkdir_fails : BOOLEAN]

\* A mkdir that takes an existing directory for its own
Mkdir_ExistOk(files, c) ==
    IF c.mkdir_fails THEN "Exception" ELSE "created"

\* self.lock_file.mkdir(parents=True, exist_ok=False)
Mkdir(files, c) ==
    IF c.mkdir_fails THEN "Exception"
    ELSE IF LockDir \in files THEN "FileExistsError"
    ELSE "created"

InitLock ==
    /\ cfg \in LockConfigs
    /\ disk \in {{}, {LockDir}}
    /\ w = [i \in LockWorkers |-> [pc |-> "idle", waited |-> 0, rewrites |-> 0]]
    /\ obs = [timed_out |-> {}]
    /\ selector = Idle /\ ret = NoSeed /\ nsel = 0
    /\ baseline = NoBaseline /\ judged = NoJudgement
    /\ results_dir = {} /\ enforced = Idle /\ clock = Idle

\* worker_main: `with SimpleFileLock(llm_lock_path, timeout=120):` is
\* reached, __enter__ takes the start time
StartRewrite ==
    /\ \E i \in LockWorkers :
          /\ w[i].pc = "idle"
          /\ w[i].rewrites < MaxRewrites
          /\ w' = [w EXCEPT ![i].pc = "entering", ![i].waited = 0,
                            ![i].rewrites = @ + 1]
    /\ UNCHANGED <<cfg, disk, obs, selector, ret, nsel, baseline, judged,
                   results_dir, enforced, clock>>

\* SimpleFileLock.__enter__, one turn of its loop: mkdir; on FileExistsError
\* TimeoutError once more than timeout has passed, else a sleep; on any
\* other exception a sleep.  A TimeoutError leaves the with statement
\* without __exit__ and the worker skips the rewrite.
TryAcquire(i) ==
    /\ w[i].pc = "entering"
    /\ LET made == Mkdir(disk, cfg)
       IN  CASE made = "created" ->
                   /\ disk' = disk \cup {LockDir}
                   /\ w' = [w EXCEPT ![i].pc = "inside"]
                   /\ obs' = obs
             [] made = "FileExistsError" /\ w[i].waited > cfg.timeout ->
                   /\ w' = [w EXCEPT ![i].pc = "idle"]
                   /\ obs' = [obs EXCEPT !.timed_out = @ \cup {i}]
                   /\ disk' = disk
             [] OTHER ->
                   /\ w' = [w EXCEPT ![i].waited =
                               IF @ > cfg.timeout THEN @ ELSE @ + 1]
                   /\ UNCHANGED <<disk, obs>>
    /\ UNCHANGED <<cfg, selector, ret, nsel, baseline, judged,
                   results_dir, enforced, clock>>

\* The rewrite returns or raises and SimpleFileLock.__exit__ runs: rmdir,
\* whose failure is ignored
ExitLock ==
    /\ \E i \in LockWorkers : \E removed \in BOOLEAN :
          /\ w[i].pc = "inside"
          /\ w' = [w EXCEPT ![i].pc = "idle"]
          /\ disk' = IF removed THEN disk \ {LockDir} ELSE disk
    /\ UNCHANGED <<cfg, obs, selector, ret, nsel, baseline, judged,
                   results_dir, enforced, clock>>

NextLock ==
    \/ StartRewrite
    \/ \E i \in LockWorkers : TryAcquire(i)
    \/ ExitLock

\* Every worker inside __enter__ gets its turns
SpecLock ==
    /\ InitLock
    /\ [][NextLock]_vars
    /\ \A i \in LockWorkers : WF_vars(TryAcquire(i))

\* The workers inside the with block
Inside(ws) == {i \in LockWorkers : ws[i].pc = "inside"}

\* C22: at most one worker is inside the LLM rewrite call; an acquisition
\* succeeds only while no worker is inside and the lock directory does not
\* exist, and the lock directory is removed only by the worker that is
\* inside, when it leaves - never by a worker whose acquisition timed out.
C22_OneWorkerInsideRewrite ==
    [][/\ Cardinality(Inside(w')) <= 1
       /\ \A i \in Inside(w') \ Inside(w) :
             Inside(w) = {} /\ LockDir \notin disk
       /\ (LockDir \in disk /\ LockDir \notin disk')
             => \E i \in Inside(w) : i \notin Inside(w')]_vars

\* A worker is inside the rewrite while another one has timed out on the
\* lock and waits for it again
C22_Witness ==
    \E i, j \in LockWorkers :
        /\ w[i].pc = "inside"
        /\ j \in obs.timed_out
        /\ w[j].pc = "entering" /\ w[j].waited > 0

\* C23: every acquisition attempt comes to an end, by acquiring the lock or
\* by TimeoutError, whatever error mkdir keeps raising.
C23_AcquisitionTerminates ==
    \A i \in LockWorkers : (w[i].pc = "entering") ~> (w[i].pc # "entering")

(***************************************************************************)
(* Persistence of the bugs found (worker_main, categorize and persist)     *)
(***************************************************************************)

\* C24: a mutant whose overall status is CRASH or HANG has its case record
\* (before.rs and after.rs under crash, hang or fate) written before the
\* worker goes on to another seed or returns.
C24_CrashOrHangPersisted ==
    w.pc \in {"select", "done"} => ~obs.unpersisted

\* C25: once a mutant of the selected seed was filed under miscompilation,
\* the mutation tool is not run again for that seed in this iteration.
C25_NoMutationAfterMiscompilation ==
    ~obs.tool_after_miscompilation

(***************************************************************************)
(* Chaining of the rounds (worker_main, "Chain evolution")                  *)
(***************************************************************************)

\* C28: the content the next round starts from changes only through a mutant
\* of add_assoc_type, add_trait or add_impl; judging a mutant of an
\* injection-style strategy (constraint_injection, projection_rewrite)
\* leaves that content and the duplicate tracking of the seed as they are.
C28_InjectionNeverChains ==
    [][(/\ w.pc = "compile"
        /\ CurrentStrategy(w) \in {"constraint_injection", "projection_rewrite"})
       => /\ w'.current_seed_content = w.current_seed_content
          /\ w'.seen_mutations_by_strategy = w.seen_mutations_by_strategy]_vars

(***************************************************************************)
(* Mutation points of a round (worker_main, forced candidate indices)       *)
(***************************************************************************)

\* C29: within one round and one strategy a forced candidate index has not
\* been tried earlier in that round for that strategy, and once every index
\* below the reported count has been tried the tool is not run again for
\* that strategy in that round.
C29_ForcedIndexIsFresh ==
    ~obs.forced_tried /\ ~obs.tool_after_all_tried

(***************************************************************************)
(* Strategies given up in a round (worker_main, exhausted_in_round)        *)
(***************************************************************************)

\* C30: once a strategy was given up in a round, the mutation tool is not
\* run for it again in that round; and a strategy is passed over in a round
\* only if it was given up in that same round: what was given up in an
\* earlier round is not carried over.
C30_AbandonedForTheRoundOnly ==
    /\ ~obs.tool_on_abandoned
    /\ w.pc \in {"plan", "mutate", "compile"}
          => \A s \in w.exhausted_in_round :
                 <<w.pass, w.round, s>> \in obs.abandoned

\* In the second round a mutant is at hand of a strategy that was given up in
\* the first round of the pass, where a planned strategy was passed over
C30_Witness ==
    /\ w.pc = "compile"
    /\ w.round = 2
    /\ <<w.pass, 1, CurrentStrategy(w)>> \in obs.abandoned
    /\ obs.passed_over

(***************************************************************************)
(* The baseline of a pass (worker_main, _compile_seed_baseline)             *)
(***************************************************************************)

\* C26: the source compiled as the baseline consulted for a mutant's fate or
\* baseline-miscompilation decision is the content the mutant was mutated
\* from, the base content of its round.
C26_BaselineIsTheMutantsBase ==
    ~obs.foreign_baseline

\* C27: within one fuzz pass each enabled configuration compiles the
\* baseline at most once, and not at all unless a mutant of the pass was
\* CRASH or HANG or had disagreeing +nightly and -Znext-solver results.
C27_BaselineCompiledOnceOnDemand ==
    /\ \A k \in DOMAIN obs.baseline_compiles : obs.baseline_compiles[k] <= 1
    /\ (\E k \in DOMAIN obs.baseline_compiles : obs.baseline_compiles[k] > 0)
          => obs.triggered

\* A CRASH mutant has just been judged in a pass whose baseline had been
\* compiled for an earlier mutant with disagreeing results: every
\* configuration has compiled the baseline once
C27_Witness ==
    /\ w.pc \in {"plan", "round"}
    /\ judged # NoJudgement
    /\ judged.overall = "CRASH"
    /\ obs.miscompiled
    /\ \A k \in DOMAIN obs.baseline_compiles : obs.baseline_compiles[k] = 1

(***************************************************************************)
(* The mutation retry loop (worker_main, "A. Mutation Retry Loop")          *)
(***************************************************************************)

\* C31: for each planned strategy the mutation tool is run at most
\* mutation_max_retries times and at most one mutant goes on to be compiled;
\* and when the retry loop ends without a mutant for another reason than an
\* unparsable seed, the round goes on: the worker is back in the loop over
\* the planned strategies of the same round, at the same place, with no
\* skip flag set.
C31_BoundedRetriesRoundGoesOn ==
    [][/\ obs'.tool_runs <= cfg.mutation_max_retries
       /\ obs'.handed <= 1
       /\ (/\ w.pc = "mutate"
           /\ w'.pc \notin {"mutate", "compile"}
           /\ ~w'.skip_seed_due_to_parse)
          => /\ w'.pc = "plan"
             /\ w'.round = w.round
             /\ w'.planned_strategies = w.planned_strategies
             /\ w'.planned = w.planned
             /\ w'.skip_remaining_rounds = w.skip_remaining_rounds]_vars

\* The retry loop of a planned strategy has run the tool mutation_max_retries
\* times without a mutant, and a planned strategy of the round is left
C31_Witness ==
    /\ w.pc = "plan"
    /\ obs.tool_runs = cfg.mutation_max_retries
    /\ cfg.mutation_max_retries > 1
    /\ obs.handed = 0
    /\ ~w.skip_seed_due_to_parse
    /\ w.planned >= 1 /\ w.planned < Len(w.planned_strategies)

(***************************************************************************)
(* Unparsable seeds (worker_main, "Parse failed:")                          *)
(***************************************************************************)

\* C32: a selected seed whose own content the mutation tool cannot parse is
\* in bad_seeds and out of the selector from then on, a seed of bad_seeds is
\* not the selected seed of a later iteration, and the mutation tool is not
\* run again for the seed in the iteration that found it unparsable.
C32_UnparsableSeedIsDropped ==
    /\ w.bad_seeds \cap selector.seeds = {}
    /\ obs.unparsable => w.seed_path \in w.bad_seeds
    /\ (w.pc \in {"pass", "round", "plan", "mutate", "compile"}
           /\ w.seed_path \in w.bad_seeds) => obs.unparsable
    /\ ~obs.tool_after_unparsable

(***************************************************************************)
(* The layout of a persisted case (worker_main, "4. Categorize & persist")  *)
(***************************************************************************)

\* C33: once a mutant is judged, every case directory made for it holds
\* before.rs, after.rs and detail.log, in both categories when the mutant is
\* filed under its status category and under miscompilation.
C33_EveryCaseDirectoryIsComplete ==
    Judged => \A k \in 1..Len(judged.dest_statuses) :
                  \A f \in CaseLayout : <<judged.dest_statuses[k], f>> \in obs.files

(***************************************************************************)
(* The frame of remove_seed                                                 *)
(***************************************************************************)

\* A call of remove_seed that removed s from the pool
Removes(s) ==
    /\ s \in selector.seeds
    /\ selector'.seeds = selector.seeds \ {s}
    /\ obs' = Idle

\* C34: remove_seed(s) leaves the pick count and the recency-window entries
\* of every other seed as they are, and when the family of s still has a
\* member in the pool it leaves the pick count and the family-recency
\* entries of that family as they are.
C34_RemoveSeedFrame ==
    [][\A s \in Seeds :
          Removes(s) =>
             LET family == FamilyKey(selector, s)
                 others == {t \in selector'.seeds :
                               FamilyKey(selector', t) = family}
             IN  /\ \A t \in Paths \ {s} :
                        selector'.pick_counts[t] = selector.pick_counts[t]
                 /\ selector'.recent =
                        SelectSeq(selector.recent, LAMBDA x : x # s)
                 /\ others # {} =>
                        /\ selector'.family_pick_counts[family] =
                               selector.family_pick_counts[family]
                        /\ selector'.family_recent = selector.family_recent]_vars

(***************************************************************************)
(* The pick budget of a seed                                                *)
(***************************************************************************)

\* C35: with seed_max_picks_per_seed = m >= 0, select has returned no seed
\* more than m times since the seed is in the pool.
C35_PickBudgetHolds ==
    selector.max_picks_per_seed >= 0
       => \A s \in Paths : w.returned[s] <= selector.max_picks_per_seed

\* A seed has used up a budget of two picks and is still in the pool, and
\* the select call just made returned another seed or none
C35_Witness ==
    /\ selector.max_picks_per_seed = 2
    /\ obs # Idle
    /\ \E s \in selector.seeds : w.returned[s] = 2 /\ ret # s

(***************************************************************************)
(* A select call that returns None                                          *)
(***************************************************************************)

\* C36: a select call returns None only if no eligible seed whose file
\* exists is left in the pool; stale seeds among the candidates do not make
\* the call fail while an existing eligible seed is available.
C36_NoneOnlyWhenNothingUsable ==
    (obs # Idle /\ ret = NoSeed)
       => ~ \E s \in EligibleSeeds(selector) : s \in obs.files

(***************************************************************************)
(* Several workers promoting under one seed root                            *)
(***************************************************************************)

\* The worker processes that promote, how many mutants each of them
\* promotes, and the highest directory number a run gets to
MaxPromoters == 2
MaxPromotionsEach == 2
MaxPoolDirs == 4

Promoters == 0..(MaxPromoters - 1)

\* --new-seeds-max of the runs explored
PoolConfigs == [new_seeds_max : {0, 1, 2}]

\* The seed root as the workers' system calls find it: the directories
\* <prefix>N by their number N, and the files seed_<variant_id>.rs as
\* <<N, worker, promotion>>
EmptyPool == [dirs |-> {}, files |-> {}]

\* current_dir.glob('*.rs')
SeedFilesIn(pool, n) == {f \in pool.files : f[1] = n}

\* pick_next_new_seed_dir, the loop over seeds_dir.iterdir(): max_n
HighestDir(pool) ==
    IF pool.dirs = {} THEN 0
    ELSE CHOOSE n \in pool.dirs : \A m \in pool.dirs : m <= n

\* The locals of one worker: promoted_dir (0 is None), max_n of the listing
\* it made last, and the promotions it has written
PromoterLocals ==
    [pc |-> "list", rolling |-> FALSE, promoted_dir |-> 0, max_n |-> 0,
     promotions |-> 0]

InitSharedPool ==
    /\ cfg \in PoolConfigs
    /\ disk = EmptyPool
    /\ w = [i \in Promoters |-> PromoterLocals]
    /\ obs = Idle /\ selector = Idle
    /\ ret = NoSeed /\ nsel = 0
    /\ baseline = NoBaseline /\ judged = NoJudgement
    /\ results_dir = {} /\ enforced = Idle /\ clock = Idle

sharedPoolIdle ==
    <<cfg, obs, selector, ret, nsel, baseline, judged, results_dir, enforced,
      clock>>

\* pick_next_new_seed_dir: a worker lists the seed root, at its start or
\* when maybe_roll_promoted_dir found its directory full
ListSeedsDir ==
    /\ \E i \in Promoters :
          /\ w[i].pc = "list"
          /\ w' = [w EXCEPT ![i].pc = "mkdir", ![i].max_n = HighestDir(disk)]
    /\ UNCHANGED <<disk, sharedPoolIdle>>

\* pick_next_new_seed_dir: out.mkdir(parents=True, exist_ok=True) of
\* <prefix>(max_n + 1); the worker goes on with that directory, into the
\* fuzzing loop or to the write of the mutant it is promoting
MakeNewSeedDir ==
    /\ \E i \in Promoters :
          /\ w[i].pc = "mkdir"
          /\ w[i].max_n < MaxPoolDirs
          /\ disk' = [disk EXCEPT !.dirs = @ \cup {w[i].max_n + 1}]
          /\ w' = [w EXCEPT ![i].promoted_dir = w[i].max_n + 1,
                            ![i].rolling = FALSE,
                            ![i].pc = IF w[i].rolling THEN "write"
                                      ELSE "fuzz"]
    /\ UNCHANGED sharedPoolIdle

\* maybe_roll_promoted_dir for the next SUCCESS mutant: the worker counts
\* the seed files of its directory and rolls when it is full
GlobCurrentDir ==
    /\ \E i \in Promoters :
          /\ w[i].pc = "fuzz"
          /\ w[i].promotions < MaxPromotionsEach
          /\ LET files == SeedFilesIn(disk, w[i].promoted_dir)
             IN  w' = IF cfg.new_seeds_max <= 0
                      THEN [w EXCEPT ![i].pc = "write"]
                      ELSE IF Cardinality(files) >= cfg.new_seeds_max
                      THEN [w EXCEPT ![i].pc = "list", ![i].rolling = TRUE]
                      ELSE [w EXCEPT ![i].pc = "write"]
    /\ UNCHANGED <<disk, sharedPoolIdle>>

\* out_path.write_text(mutated_content) into promoted_dir
WritePromotedSeed ==
    /\ \E i \in Promoters :
          /\ w[i].pc = "write"
          /\ disk' = [disk EXCEPT !.files =
                         @ \cup {<<w[i].promoted_dir, i, w[i].promotions + 1>>}]
          /\ w' = [w EXCEPT ![i].pc = "fuzz", ![i].promotions = @ + 1]
    /\ UNCHANGED sharedPoolIdle

NextSharedPool ==
    \/ ListSeedsDir
    \/ MakeNewSeedDir
    \/ GlobCurrentDir
    \/ WritePromotedSeed

SpecSharedPool == InitSharedPool /\ [][NextSharedPool]_vars

\* C37: with several workers promoting under the same seed root and
\* new_seeds_max > 0, no promoted directory ever holds more than
\* new_seeds_max seed files.
C37_SharedPoolWithinCap ==
    cfg.new_seeds_max > 0
       => \A n \in disk.dirs :
             Cardinality(SeedFilesIn(disk, n)) <= cfg.new_seeds_max

(***************************************************************************)
(* One worker writing case records under its keep-limits                    *)
(***************************************************************************)

\* How many mutants the run judges, and how many success directories an
\* earlier run may have left
MaxJudged == 3
MaxLeftOver == 3

\* The results tree an earlier run left: success directories older than
\* anything this run writes
LeftOver(n) == {[status |-> "success", name |-> 0 - k, mtime |-> 0] : k \in 1..n}

\* --keep-success-cases, --keep-error-cases, --max-cases, --min-free-gb of
\* the runs explored
KeepConfigs ==
    {[RetentionBaseConfig EXCEPT !.keep_fate_cases = -1,
                                 !.keep_rewritten_cases = -1],
     [RetentionBaseConfig EXCEPT !.keep_success_cases = 0,
                                 !.keep_error_cases = 2,
                                 !.keep_fate_cases = -1,
                                 !.keep_rewritten_cases = -1,
                                 !.min_free_gb_set = TRUE],
     [RetentionBaseConfig EXCEPT !.keep_success_cases = 1,
                                 !.keep_error_cases = -1,
                                 !.keep_fate_cases = -1,
                                 !.keep_rewritten_cases = -1,
                                 !.max_cases = {2}]}

\* dest_statuses of the mutants judged: not persisted, persisted in its
\* status category, persisted there and under miscompilation
DestStatuses ==
    {<<>>, <<"success">>, <<"error">>, <<"crash">>,
     <<"success", "miscompilation">>, <<"error", "miscompilation">>}

\* A worker that writes its case record without a look at the limits
ChecksLimitsBeforeWrite_Never(dest_statuses) == FALSE

\* `if dest_statuses:` before the per-case enforce_results_limits
ChecksLimitsBeforeWrite(dest_statuses) == dest_statuses # <<>>

\* With one worker nothing else removes entries during a call; a deletion
\* of the call may fail (shutil.rmtree raises other than FileNotFoundError)
OwnFaults(entries) == {f \in Faults(entries) : f.at \in {"never", "stuck"}}

\* Whether a deletion has failed in a check of the run
NoKeepRun == [failed |-> FALSE]

InitKeepLimit ==
    /\ cfg \in KeepConfigs
    /\ results_dir \in {LeftOver(n) : n \in 0..MaxLeftOver}
    /\ enforced = Idle
    /\ clock = [now |-> 1, serial |-> 0]
    /\ w = [pc |-> "start", dest_statuses |-> <<>>]
    /\ obs = NoKeepRun
    /\ selector = Idle /\ disk = {} /\ ret = Idle /\ nsel = 0
    /\ baseline = Idle /\ judged = Idle

keepLimitIdle == <<cfg, selector, disk, ret, nsel, baseline, judged>>

\* One call of enforce_results_limits by the worker: where the worker goes
\* on when the call returns True, returns False, raises
LimitsChecked(on_true, on_false, on_raise) ==
    /\ \E f \in OwnFaults(results_dir), low_disk \in LowDisk(cfg) :
          \E o \in EnforceResultsLimits(results_dir, cfg, f, low_disk,
                                        clock.now) :
             /\ enforced' = [result |-> o.result,
                              deleted |-> Cardinality(Deleted(o))]
             /\ results_dir' = results_dir \ Deleted(o)
             /\ obs' = [failed |-> obs.failed \/ f.at = "stuck"]
             /\ w' = [w EXCEPT !.pc = IF o.result = "True" THEN on_true
                                      ELSE IF o.result = "False" THEN on_false
                                      ELSE on_raise]
    /\ UNCHANGED <<clock, keepLimitIdle>>

\* worker_main before the fuzzing loop: "proactively enforce limits before
\* starting"
InitialCheck ==
    /\ w.pc = "start"
    /\ LimitsChecked("fuzz", "done", "done")

\* A mutant is judged and its dest_statuses decided
KeepJudge ==
    /\ w.pc = "fuzz"
    /\ clock.serial < MaxJudged
    /\ \E d \in DestStatuses :
          w' = [w EXCEPT !.dest_statuses = d,
                         !.pc = IF ChecksLimitsBeforeWrite(d) THEN "check"
                                ELSE IF d = <<>> THEN "fuzz" ELSE "write"]
    /\ clock' = [clock EXCEPT !.serial = @ + 1]
    /\ UNCHANGED <<results_dir, enforced, obs, keepLimitIdle>>

\* The per-case check: False ends the worker, an exception fails the variant
PerCaseCheck ==
    /\ w.pc = "check"
    /\ LimitsChecked("write", "done", "fuzz")

\* The loop over dest_statuses: dest_case.mkdir and the copies
WriteCaseRecord ==
    /\ w.pc = "write"
    /\ \E tick \in {0, 1} :
          /\ clock' = [clock EXCEPT !.now = @ + tick]
          /\ results_dir' = results_dir \cup
                {[status |-> w.dest_statuses[k], name |-> clock.serial,
                  mtime |-> clock.now + tick] :
                    k \in 1..Len(w.dest_statuses)}
    /\ w' = [w EXCEPT !.pc = "fuzz", !.dest_statuses = <<>>]
    /\ enforced' = Idle
    /\ UNCHANGED <<obs, keepLimitIdle>>

\* The check at the end of one outer iteration: False or an exception ends
\* the worker
EndOfIterationCheck ==
    /\ w.pc = "fuzz"
    /\ LimitsChecked("fuzz", "done", "done")

NextKeepLimit ==
    \/ InitialCheck
    \/ KeepJudge
    \/ PerCaseCheck
    \/ WriteCaseRecord
    \/ EndOfIterationCheck

SpecKeepLimit == InitKeepLimit /\ [][NextKeepLimit]_vars

\* A category is within its keep-limit right after a check, and at most one
\* above it at any time
WithinKeepLimit(status) ==
    LET held == Cardinality(EntriesIn(results_dir, status))
        K == KeepLimit(cfg, status)
    IN  K >= 0 => /\ enforced # Idle => held <= K
                  /\ held <= K + 1

MaxIdWorkers == 2
MaxIdIterations == 2
MaxIdRounds == 2
MaxIdPlanned == 1
MaxIdJudged == 2

IdWorkers == 0..(MaxIdWorkers - 1)

\* fuzz_passes: ("original", ...) and, after a rewrite, ("rewritten", ...)
FuzzPasses == <<"original", "rewritten">>

\* An identifier without the name of the pass
VariantId_NoPassName(worker_index, i, pass_name, variant_index) ==
    "w" \o ToString(worker_index) \o "_iter_" \o ToString(i + 1)
        \o "_var_" \o ToString(variant_index)

\* f"w{worker_index}_iter_{i+1}_{pass_name}_var_{variant_index}"
VariantId(worker_index, i, pass_name, variant_index) ==
    "w" \o ToString(worker_index) \o "_iter_" \o ToString(i + 1)
        \o "_" \o pass_name \o "_var_" \o ToString(variant_index)

\* results_dir / ds / f"case_{variant_id}"
DestCase(ds, variant_id) == "results/" \o ds \o "/case_" \o variant_id

\* promoted_dir / f"seed_{variant_id}.rs", or with int(time.time()) after
\* the identifier when that file exists
OutPath(dir, variant_id, exists, now) ==
    IF exists
    THEN "seeds/new" \o ToString(dir) \o "/seed_" \o variant_id
             \o "_" \o ToString(now) \o ".rs"
    ELSE "seeds/new" \o ToString(dir) \o "/seed_" \o variant_id \o ".rs"

\* What a judged mutant is written to: dest_statuses and whether it is
\* promoted
IdOutcomes ==
    {[dest_statuses |-> <<"success">>, promoted |-> TRUE],
     [dest_statuses |-> <<"error", "miscompilation">>, promoted |-> FALSE]}

\* The loop position of one worker (with the values a finished iteration
\* left behind cleared); i is the index of the iteration, pass
\* the number of fuzz passes started in it, passes the length of fuzz_passes
IdLocals(dir) ==
    [pc |-> "loop", i |-> -1, passes |-> 1, pass |-> 0, round |-> 0,
     planned |-> 0, variant_index |-> 0, variant_id |-> "",
     promoted_dir |-> dir]

\* The paths written so far, each with the mutant written to it (the
\* mutants numbered as they are judged)
NothingWritten == [judged |-> 0, written |-> {}]

InitVariantIds ==
    /\ w \in {[i \in IdWorkers |-> IdLocals(1)],
               [i \in IdWorkers |-> IdLocals(i + 1)]}
    /\ obs = NothingWritten
    /\ cfg = Idle /\ selector = Idle /\ disk = {} /\ ret = Idle /\ nsel = 0
    /\ baseline = Idle /\ judged = Idle
    /\ results_dir = {} /\ enforced = Idle /\ clock = Idle

variantIdsIdle ==
    <<cfg, selector, disk, ret, nsel, baseline, judged, results_dir, enforced,
      clock>>

\* for i in range(iterations): the next iteration, with or without a
\* rewritten pass
IdStartIteration ==
    /\ \E k \in IdWorkers, passes \in 1..Len(FuzzPasses) :
          /\ w[k].pc = "loop"
          /\ w[k].i + 1 < MaxIdIterations
          /\ w' = [w EXCEPT ![k].pc = "iteration", ![k].i = @ + 1,
                            ![k].passes = passes, ![k].pass = 0]
    /\ UNCHANGED <<obs, variantIdsIdle>>

\* for pass_name, pass_content in fuzz_passes: the next pass starts with
\* variant_index = 0, or the iteration ends
IdStartPass ==
    /\ \E k \in IdWorkers :
          /\ w[k].pc = "iteration"
          /\ w' = IF w[k].pass < w[k].passes
                  THEN [w EXCEPT ![k].pc = "pass", ![k].pass = @ + 1,
                                 ![k].variant_index = 0, ![k].round = 0]
                  ELSE [w EXCEPT ![k].pc = "loop", ![k].passes = 1,
                                 ![k].pass = 0, ![k].round = 0,
                                 ![k].planned = 0, ![k].variant_index = 0]
    /\ UNCHANGED <<obs, variantIdsIdle>>

\* for _round in range(rounds): the next round, or the pass ends
IdStartRound ==
    /\ \E k \in IdWorkers :
          /\ w[k].pc = "pass"
          /\ w' = IF w[k].round < MaxIdRounds
                  THEN [w EXCEPT ![k].pc = "round", ![k].round = @ + 1,
                                 ![k].planned = 0]
                  ELSE [w EXCEPT ![k].pc = "iteration"]
    /\ UNCHANGED <<obs, variantIdsIdle>>

\* for planned in planned_strategies: variant_index += 1 and the variant_id
\* of the attempt, or the round ends
IdNextPlanned ==
    /\ \E k \in IdWorkers :
          /\ w[k].pc = "round"
          /\ w' = IF w[k].planned < MaxIdPlanned
                  THEN [w EXCEPT ![k].pc = "variant", ![k].planned = @ + 1,
                                 ![k].variant_index = @ + 1,
                                 ![k].variant_id =
                                     VariantId(k, w[k].i,
                                               FuzzPasses[w[k].pass],
                                               w[k].variant_index + 1)]
                  ELSE [w EXCEPT ![k].pc = "pass"]
    /\ UNCHANGED <<obs, variantIdsIdle>>

\* The attempt yields no mutant
IdNoMutant ==
    /\ \E k \in IdWorkers :
          /\ w[k].pc = "variant"
          /\ w' = [w EXCEPT ![k].pc = "round", ![k].variant_id = ""]
    /\ UNCHANGED <<obs, variantIdsIdle>>

\* The mutant of the attempt is judged, its case directories are written
\* and it is promoted
IdJudgeMutant ==
    /\ obs.judged < MaxIdJudged
    /\ \E k \in IdWorkers, o \in IdOutcomes, now \in {0, 1} :
          LET mutant == obs.judged + 1
              cases == {DestCase(o.dest_statuses[n], w[k].variant_id) :
                           n \in 1..Len(o.dest_statuses)}
              plain == OutPath(w[k].promoted_dir, w[k].variant_id, FALSE, now)
              exists == \E x \in obs.written : x.path = plain
              seeds == IF o.promoted
                       THEN {OutPath(w[k].promoted_dir, w[k].variant_id,
                                     exists, now)}
                       ELSE {}
          IN  /\ w[k].pc = "variant"
              /\ obs' = [judged |-> mutant,
                         written |-> obs.written \cup
                             {[path |-> p, mutant |-> mutant] :
                                 p \in cases \cup seeds}]
              /\ w' = [w EXCEPT ![k].pc = "round", ![k].variant_id = ""]
    /\ UNCHANGED variantIdsIdle

NextVariantIds ==
    \/ IdStartIteration
    \/ IdStartPass
    \/ IdStartRound
    \/ IdNextPlanned
    \/ IdNoMutant
    \/ IdJudgeMutant

SpecVariantIds == InitVariantIds /\ [][NextVariantIds]_vars

\* C39: within one run started on an empty results tree no two judged
\* mutants, of the same worker or of different workers, are written to the
\* same case directory or to the same promoted seed file.
C39_OneMutantPerPath ==
    \A x, y \in obs.written : x.path = y.path => x.mutant = y.mutant

\* Two mutants of one worker have been judged, written and promoted: the
\* first variants of the original and of the rewritten pass of its first
\* iteration, while the other worker promotes into the same directory
C39_Witness ==
    /\ obs.judged = 2
    /\ w[0].promoted_dir = w[1].promoted_dir
    /\ \E x, y \in obs.written :
          /\ x.path = "seeds/new1/seed_w0_iter_1_original_var_1.rs"
          /\ y.path = "seeds/new1/seed_w0_iter_1_rewritten_var_1.rs"
          /\ x.mutant # y.mutant

====
